---- MODULE Spec2Model ----
(***************************************************************************)
(* gostry: transaction-scoped audit capture.  A wrapped transaction        *)
(* buffers one capture entry per captured row (or statement) and, on       *)
(* Commit, flushes the buffer as history INSERTs inside the same           *)
(* underlying transaction before committing it.                            *)
(*                                                                         *)
(* Text (SQL identifiers) is a sequence of one-character strings.          *)
(***************************************************************************)
EXTENDS Integers, Sequences, FiniteSets, TLC

(***************************************************************************)
(* Bounds of the model.                                                    *)
(***************************************************************************)
\* ExecContext calls made on one wrapped transaction
MaxStmts == 2
\* Commit and Rollback calls made on one wrapped transaction
MaxEnds == 3
\* rows a RETURNING cursor yields at most
MaxRows == 2
\* goroutines calling one Buffer concurrently
MaxProcs == 2
\* Buffer calls they make in all
MaxCalls == 4
\* the longest identifier text given to SplitQualified and HistoryParts
MaxText == 5
\* the longest part, and the most parts, given to QuoteQualified
MaxPartLen == 2
MaxParts == 2
\* the longest table text of an entry whose history statement is built
MaxTableLen == 4

(***************************************************************************)
(* internal/ident: qualified identifiers.                                  *)
(***************************************************************************)
\* characters a string of this notation cannot hold, written by code point:
\* the vertical tab, the next-line control, the no-break space, the long s
\* and the Kelvin sign
VT == "U+000B"
NEL == "U+0085"
NBSP == "U+00A0"
LongS == "U+017F"
KelvinSign == "U+212A"

\* the ideographic space
IdeographicSpace == "U+3000"

\* the white space of Latin-1
Latin1Spaces == {"\t", "\n", VT, "\f", "\r", " ", NEL, NBSP}

\* the white space above Latin-1: the Ogham space mark, the spaces from the
\* en quad to the hair space, the line and the paragraph separator, the
\* narrow no-break space, the medium mathematical space and the ideographic
\* space
WhiteSpaces ==
    {"U+1680", "U+2000", "U+2001", "U+2002", "U+2003", "U+2004", "U+2005",
     "U+2006", "U+2007", "U+2008", "U+2009", "U+200A", "U+2028", "U+2029",
     "U+202F", "U+205F", IdeographicSpace}

\* unicode.IsSpace: the white space of strings.TrimSpace and of StripAlias
IsSpace(c) == c \in Latin1Spaces \cup WhiteSpaces

RECURSIVE TrimLeft(_)
TrimLeft(s) ==
    IF s # <<>> /\ IsSpace(Head(s)) THEN TrimLeft(Tail(s)) ELSE s

RECURSIVE TrimRight(_)
TrimRight(s) ==
    IF s # <<>> /\ IsSpace(s[Len(s)]) THEN TrimRight(SubSeq(s, 1, Len(s) - 1)) ELSE s

\* strings.TrimSpace
TrimSpace(s) == TrimRight(TrimLeft(s))

\* the scanning loop of SplitQualified: i is the rune index (1-based),
\* buf the strings.Builder, parts the parts appended so far
RECURSIVE SplitLoop(_, _, _, _, _)
SplitLoop(runes, i, inQuotes, buf, parts) ==
    IF i > Len(runes) THEN Append(parts, TrimSpace(buf))
    ELSE LET r == runes[i] IN
         IF r = "\"" THEN
              IF inQuotes /\ i + 1 <= Len(runes) /\ runes[i + 1] = "\""
              THEN SplitLoop(runes, i + 2, inQuotes, Append(buf, "\""), parts)
              ELSE SplitLoop(runes, i + 1, ~inQuotes, buf, parts)
         ELSE IF r = "." THEN
              IF inQuotes
              THEN SplitLoop(runes, i + 1, inQuotes, Append(buf, r), parts)
              ELSE SplitLoop(runes, i + 1, inQuotes, <<>>, Append(parts, TrimSpace(buf)))
         ELSE SplitLoop(runes, i + 1, inQuotes, Append(buf, r), parts)

\* mutant: the identifier is not trimmed before it is scanned
SplitQualifiedUntrimmed(ident) ==
    IF ident = <<>> THEN <<>> ELSE SplitLoop(ident, 1, FALSE, <<>>, <<>>)

SplitQualified(ident) ==
    LET t == TrimSpace(ident) IN
    IF t = <<>> THEN <<>> ELSE SplitLoop(t, 1, FALSE, <<>>, <<>>)

\* mutant: the suffix goes to the first part
HistoryPartsFirst(base, suffix) ==
    LET parts == SplitQualified(base) IN
    IF Len(parts) = 0
    THEN IF suffix = <<>> THEN <<>> ELSE <<suffix>>
    ELSE [i \in 1..Len(parts) |->
             IF i = 1 THEN parts[i] \o suffix ELSE parts[i]]

HistoryParts(base, suffix) ==
    LET parts == SplitQualified(base) IN
    IF Len(parts) = 0
    THEN IF suffix = <<>> THEN <<>> ELSE <<suffix>>
    ELSE [i \in 1..Len(parts) |->
             IF i = Len(parts) THEN parts[i] \o suffix ELSE parts[i]]

\* strings.ReplaceAll(s, old, new) for a one-character old
RECURSIVE ReplaceAll(_, _, _)
ReplaceAll(s, old, new) ==
    IF s = <<>> THEN <<>>
    ELSE (IF Head(s) = old THEN new ELSE <<Head(s)>>) \o ReplaceAll(Tail(s), old, new)

\* mutant: the quotes inside the part are left single
QuoteUndoubled(part) == <<"\"">> \o part \o <<"\"">>

Quote(part) == <<"\"">> \o ReplaceAll(part, "\"", <<"\"", "\"">>) \o <<"\"">>

\* strings.Join(elems, sep)
RECURSIVE Join(_, _)
Join(elems, sep) ==
    IF elems = <<>> THEN <<>>
    ELSE IF Len(elems) = 1 THEN elems[1]
    ELSE elems[1] \o sep \o Join(Tail(elems), sep)

\* mutant: the parts are joined first and quoted as one
QuoteQualifiedAsOne(parts) ==
    IF Len(parts) = 0 THEN <<>>
    ELSE Quote(Join(parts, <<".">>))

QuoteQualified(parts) ==
    IF Len(parts) = 0 THEN <<>>
    ELSE Join([i \in 1..Len(parts) |-> Quote(parts[i])], <<".">>)

\* mutant: the single quotes of the identifier are left single
QualifiedRegclassLiteralUndoubled(parts) ==
    IF Len(parts) = 0 THEN <<"'", "'">>
    ELSE <<"'">> \o QuoteQualified(parts) \o <<"'">>

QualifiedRegclassLiteral(parts) ==
    IF Len(parts) = 0 THEN <<"'", "'">>
    ELSE <<"'">> \o ReplaceAll(QuoteQualified(parts), "'", <<"'", "'">>) \o <<"'">>

BaseTableName(ident) ==
    LET parts == SplitQualified(ident) IN
    IF Len(parts) = 0 THEN TrimSpace(ident) ELSE parts[Len(parts)]

(***************************************************************************)
(* internal/query: ParseDML.  A statement is text, a sequence of           *)
(* one-character strings; each regular expression is matched as Go's       *)
(* regexp matches it, the leftmost match with the choices taken in the     *)
(* order of the pattern (greedy before lazy, the optional group first).    *)
(***************************************************************************)
UpperCase == <<"A", "B", "C", "D", "E", "F", "G", "H", "I", "J", "K", "L", "M",
               "N", "O", "P", "Q", "R", "S", "T", "U", "V", "W", "X", "Y", "Z">>
LowerCase == <<"a", "b", "c", "d", "e", "f", "g", "h", "i", "j", "k", "l", "m",
               "n", "o", "p", "q", "r", "s", "t", "u", "v", "w", "x", "y", "z">>
Digits == {"0", "1", "2", "3", "4", "5", "6", "7", "8", "9"}

\* the lower case of an ASCII letter
ToLower(c) ==
    IF \E k \in 1..26 : UpperCase[k] = c
    THEN LowerCase[CHOOSE k \in 1..26 : UpperCase[k] = c] ELSE c

\* the (?i) flag: a letter of the pattern matches the characters of its
\* orbit under unicode.SimpleFold, which for s holds the long s and for k
\* the Kelvin sign beside the two cases
SimpleFold(c) ==
    IF c = LongS THEN "s"
    ELSE IF c = KelvinSign THEN "k"
    ELSE ToLower(c)

\* \s of the patterns: [\t\n\f\r ]
IsPatternSpace(c) == c \in {"\t", "\n", "\f", "\r", " "}

\* \w, the word characters of \b
IsWordChar(c) ==
    \/ \E k \in 1..26 : LowerCase[k] = ToLower(c)
    \/ c \in Digits
    \/ c = "_"

\* \b between t[i - 1] and t[i]
WordBoundary(t, i) ==
    LET before == i > 1 /\ i - 1 <= Len(t) /\ IsWordChar(t[i - 1])
        after == i >= 1 /\ i <= Len(t) /\ IsWordChar(t[i])
    IN  before # after

\* the literal w of a pattern, in lower case, matches t at i in any case
HasWordAt(t, i, w) ==
    /\ i + Len(w) - 1 <= Len(t)
    /\ \A k \in 1..Len(w) : SimpleFold(t[i + k - 1]) = w[k]

\* \s* at i, greedy: the position after the whitespace
RECURSIVE SkipSpace(_, _)
SkipSpace(t, i) ==
    IF i <= Len(t) /\ IsPatternSpace(t[i]) THEN SkipSpace(t, i + 1) ELSE i

\* [^\s]+ at i, greedy, or [^\s(]+ with stop = {"("}: the position after it
RECURSIVE SkipToken(_, _, _)
SkipToken(t, i, stop) ==
    IF i <= Len(t) /\ ~IsPatternSpace(t[i]) /\ t[i] \notin stop
    THEN SkipToken(t, i + 1, stop) ELSE i

NoMatch == [ok |-> FALSE, m1 |-> <<>>]
MatchOf(t, from, to) == [ok |-> TRUE, m1 |-> SubSeq(t, from, to - 1)]

\* ([^\s(]+) from d to e
insertTarget(t, d, e) == IF e > d THEN MatchOf(t, d, e) ELSE NoMatch

\* into\s+ at b, the whitespace ending at d, after insert\s+ from i
insertInto(t, i, b, d) ==
    IF /\ HasWordAt(t, i, <<"i", "n", "s", "e", "r", "t">>) /\ b > i + 6
       /\ HasWordAt(t, b, <<"i", "n", "t", "o">>) /\ d > b + 4
    THEN insertTarget(t, d, SkipToken(t, d, {"("})) ELSE NoMatch

insertSpace(t, i, b) == insertInto(t, i, b, SkipSpace(t, b + 4))

\* insert\s+into\s+([^\s(]+) at i
insertAt(t, i) == insertSpace(t, i, SkipSpace(t, i + 6))

\* [^\s]+ from s to e
tokenEnd(s, e) == IF e > s THEN <<e>> ELSE <<>>

\* as\s+[^\s]+ at s2, the whitespace after "as" ending at s3
asEnds(t, s2, s3) ==
    IF HasWordAt(t, s2, <<"a", "s">>) /\ s3 > s2 + 2
    THEN tokenEnd(s3, SkipToken(t, s3, {})) ELSE <<>>

\* (?:\s+(?:as\s+)?[^\s]+)? after the first token, the whitespace ending at s2
aliasEnds(t, e1, s2) ==
    IF s2 > e1
    THEN asEnds(t, s2, SkipSpace(t, s2 + 2)) \o tokenEnd(s2, SkipToken(t, s2, {}))
    ELSE <<>>

targetEndsFrom(t, d, e1) ==
    IF e1 > d THEN aliasEnds(t, e1, SkipSpace(t, e1)) \o <<e1>> ELSE <<>>

\* the ends the group ([^\s]+(?:\s+(?:as\s+)?[^\s]+)?) can have when it starts
\* at d, in the order the matcher tries them: with "as" and an alias, with
\* one more token, the first token alone
TargetEnds(t, d) == targetEndsFrom(t, d, SkipToken(t, d, {}))

setWord(t, j, k) ==
    k > j /\ HasWordAt(t, k, <<"s", "e", "t">>) /\ WordBoundary(t, k + 3)

\* \s+set\b at j
SetAt(t, j) == setWord(t, j, SkipSpace(t, j))

\* the first of the ends after which \s+set\b matches
chooseFit(t, d, ends, fit) ==
    IF fit # {}
    THEN MatchOf(t, d, ends[CHOOSE n \in fit : \A m \in fit : n <= m])
    ELSE NoMatch

firstFit(t, d, ends) ==
    chooseFit(t, d, ends, {n \in 1..Len(ends) : SetAt(t, ends[n])})

updateTarget(t, i, d) ==
    IF HasWordAt(t, i, <<"u", "p", "d", "a", "t", "e">>) /\ d > i + 6
    THEN firstFit(t, d, TargetEnds(t, d)) ELSE NoMatch

\* update\s+([^\s]+(?:\s+(?:as\s+)?[^\s]+)?)\s+set\b at i
updateAt(t, i) == updateTarget(t, i, SkipSpace(t, i + 6))

\* the group at d with nothing after it: the first of its ends
firstEnd(t, d, ends) ==
    IF ends # <<>> THEN MatchOf(t, d, ends[1]) ELSE NoMatch

deleteTarget(t, c, d) ==
    IF d > c THEN firstEnd(t, d, TargetEnds(t, d)) ELSE NoMatch

deleteFrom(t, i, b) ==
    IF /\ HasWordAt(t, i, <<"d", "e", "l", "e", "t", "e">>) /\ b > i + 6
       /\ HasWordAt(t, b, <<"f", "r", "o", "m">>)
    THEN deleteTarget(t, b + 4, SkipSpace(t, b + 4)) ELSE NoMatch

\* delete\s+from\s+([^\s]+(?:\s+(?:as\s+)?[^\s]+)?) at i
deleteAt(t, i) == deleteFrom(t, i, SkipSpace(t, i + 6))

bodyAt(re, t, i) ==
    CASE re = "insert" -> insertAt(t, i)
      [] re = "update" -> updateAt(t, i)
      [] re = "delete" -> deleteAt(t, i)

\* the body after the prologue that ends at the first of closes, or at i
\* without a prologue
matchPrologue(re, t, i, closes) ==
    bodyAt(re, t, IF closes # {}
                  THEN SkipSpace(t, (CHOOSE j \in closes : \A k \in closes : j <= k) + 1)
                  ELSE i)

\* (?:with\b.*?\)\s*)? at i and then the body: the lazy .*? ends at the first
\* closing parenthesis after which the body matches; without one the
\* prologue is left out
matchFrom(re, t, i) ==
    matchPrologue(re, t, i,
        IF HasWordAt(t, i, <<"w", "i", "t", "h">>) /\ WordBoundary(t, i + 4)
        THEN {j \in (i + 4)..Len(t) :
                 t[j] = ")" /\ bodyAt(re, t, SkipSpace(t, j + 1)).ok}
        ELSE {})

\* ^\s* and the rest
match(re, t) == matchFrom(re, t, SkipSpace(t, 1))

reInsert(t) == match("insert", t)
reUpdate(t) == match("update", t)
reDelete(t) == match("delete", t)

\* mutant: returning is found as a substring, word or not
reReturningAnywhere(t) ==
    \E i \in 1..Len(t) :
        HasWordAt(t, i, <<"r", "e", "t", "u", "r", "n", "i", "n", "g">>)

\* \breturning\b anywhere in t
reReturning(t) ==
    \E i \in 1..Len(t) :
        /\ HasWordAt(t, i, <<"r", "e", "t", "u", "r", "n", "i", "n", "g">>)
        /\ WordBoundary(t, i) /\ WordBoundary(t, i + 9)

\* strings.TrimRight(s, ",")
RECURSIVE TrimRightCommas(_)
TrimRightCommas(s) ==
    IF s # <<>> /\ s[Len(s)] = "," THEN TrimRightCommas(SubSeq(s, 1, Len(s) - 1)) ELSE s

\* the loop of StripAlias: the text before the first whitespace outside quotes
RECURSIVE StripLoop(_, _, _)
StripLoop(runes, i, inQuotes) ==
    IF i > Len(runes) THEN runes
    ELSE IF runes[i] = "\"" THEN StripLoop(runes, i + 1, ~inQuotes)
    ELSE IF ~inQuotes /\ IsSpace(runes[i]) THEN TrimSpace(SubSeq(runes, 1, i - 1))
    ELSE StripLoop(runes, i + 1, inQuotes)

StripAlias(s) == StripLoop(TrimRightCommas(TrimSpace(s)), 1, FALSE)

\* the zero DML and false
NoDML == [ok |-> FALSE, Op |-> "", Table |-> <<>>, HasReturning |-> FALSE]

\* DML{Op, Table: ident.StripAlias(m[1]), HasReturning}, true
DMLOf(op, m, qs) ==
    [ok |-> TRUE, Op |-> op, Table |-> StripAlias(m.m1),
     HasReturning |-> reReturning(qs)]

\* the first of the three patterns that matches decides
classify(qs, mi, mu, md) ==
    IF mi.ok THEN DMLOf("INSERT", mi, qs)
    ELSE IF mu.ok THEN DMLOf("UPDATE", mu, qs)
    ELSE IF md.ok THEN DMLOf("DELETE", md, qs)
    ELSE NoDML

parseTrimmed(qs) == classify(qs, reInsert(qs), reUpdate(qs), reDelete(qs))

ParseDML(q) == parseTrimmed(TrimSpace(q))

\* the loop of AppendReturningAll: trailing semicolons are cut off one by one,
\* with the whitespace before each
RECURSIVE stripSemicolons(_, _)
stripSemicolons(trimmed, hasSemicolon) ==
    IF trimmed # <<>> /\ trimmed[Len(trimmed)] = ";"
    THEN stripSemicolons(TrimSpace(SubSeq(trimmed, 1, Len(trimmed) - 1)), TRUE)
    ELSE [trimmed |-> trimmed, hasSemicolon |-> hasSemicolon]

ReturningAll == <<"\n", "R", "E", "T", "U", "R", "N", "I", "N", "G", " ", "*">>

\* mutant: the semicolon is not attached again
appendKeepingNone(q, r) ==
    IF r.trimmed = <<>> THEN [q |-> q, ok |-> FALSE]
    ELSE [q |-> r.trimmed \o ReturningAll, ok |-> TRUE]

appendTo(q, r) ==
    IF r.trimmed = <<>> THEN [q |-> q, ok |-> FALSE]
    ELSE [q |-> r.trimmed \o ReturningAll \o (IF r.hasSemicolon THEN <<";">> ELSE <<>>),
          ok |-> TRUE]

AppendReturningAll(q) == appendTo(q, stripSemicolons(TrimSpace(q), FALSE))


(***************************************************************************)
(* Row images, redaction, id choice.                                       *)
(***************************************************************************)
\* a Go map[string]any: the nil map, or a map with the given key/value pairs
NilMap == [isNil |-> TRUE, kv |-> <<>>]
MapOf(kv) == [isNil |-> FALSE, kv |-> kv]
HasKey(m, k) == ~m.isNil /\ k \in DOMAIN m.kv

\* a value json.Marshal rejects (a float NaN scanned from the row)
NaN == "NaN"
\* what a registered redaction function returns
Masked == "***"
RedactFn(k, v) == Masked
\* the values of a RedactMap: a nil function, or the function above
NilFunc == "nil"
MaskFunc == "mask"
\* a RedactMap with no key registered
NoRedact == <<>>

\* cfg.HistorySuffix: the suffix the handler is configured with
HistorySuffix == <<"_", "h">>

\* two tables of the schema, under one-letter names: orders has a history
\* table, payments has none
Orders == <<"o">>
Payments == <<"p">>

\* the history tables the database has
DBTables == {QuoteQualified(HistoryParts(Orders, HistorySuffix))}

\* column names are text as well
ID == <<"i", "d">>

\* the row images a RETURNING cursor can yield
Images == {MapOf(ID :> "a"), MapOf(ID :> NaN)}

\* len(h.cfg.Redact) == 0 is the absence of registered keys
\* cfg.Redact is a Go map from column key to function, modelled as a function
\* from the registered keys to NilFunc or MaskFunc (which calls RedactFn)
applyRedactRegistered(redact, m) ==
    IF m.isNil \/ DOMAIN redact = {} THEN m
    ELSE MapOf([k \in DOMAIN m.kv |->
                   IF k \in DOMAIN redact
                   THEN RedactFn(k, m.kv[k]) ELSE m.kv[k]])
\* mutant: a nil image is not returned as it is when keys are registered
applyRedactAllocates(redact, m) ==
    IF DOMAIN redact = {} THEN m
    ELSE MapOf([k \in DOMAIN m.kv |->
                   IF k \in DOMAIN redact /\ redact[k] # NilFunc
                   THEN RedactFn(k, m.kv[k]) ELSE m.kv[k]])

applyRedactWith(redact, m) ==
    IF m.isNil \/ DOMAIN redact = {} THEN m
    ELSE MapOf([k \in DOMAIN m.kv |->
                   IF k \in DOMAIN redact /\ redact[k] # NilFunc
                   THEN RedactFn(k, m.kv[k]) ELSE m.kv[k]])

(***************************************************************************)
(* inflection.Singular of github.com/jinzhu/inflection, with the rule      *)
(* table the library ships: the words without a plural, the irregular      *)
(* words, then the rules for endings, the first that matches being         *)
(* applied.                                                                *)
(***************************************************************************)
\* the upper case of an ASCII letter
ToUpper(c) ==
    IF \E k \in 1..26 : LowerCase[k] = c
    THEN UpperCase[CHOOSE k \in 1..26 : LowerCase[k] = c] ELSE c

\* uncountableInflections of the library
UncountableInflections ==
    { <<"e", "q", "u", "i", "p", "m", "e", "n", "t">>,
      <<"i", "n", "f", "o", "r", "m", "a", "t", "i", "o", "n">>,
      <<"r", "i", "c", "e">>, <<"m", "o", "n", "e", "y">>,
      <<"s", "p", "e", "c", "i", "e", "s">>, <<"s", "e", "r", "i", "e", "s">>,
      <<"f", "i", "s", "h">>, <<"s", "h", "e", "e", "p">>,
      <<"j", "e", "a", "n", "s">>, <<"p", "o", "l", "i", "c", "e">> }

\* irregularInflections of the library, plural to singular: each is tried
\* in upper case, with a capital and as written, at the end of the word
IrregularInflections ==
    << <<[lit |-> <<"p", "e", "o", "p", "l", "e">>, pre |-> "any", no |-> {}, cut |-> 6, add |-> <<"p", "e", "r", "s", "o", "n">>]>>,
       <<[lit |-> <<"m", "e", "n">>, pre |-> "any", no |-> {}, cut |-> 3, add |-> <<"m", "a", "n">>]>>,
       <<[lit |-> <<"c", "h", "i", "l", "d", "r", "e", "n">>, pre |-> "any", no |-> {}, cut |-> 8, add |-> <<"c", "h", "i", "l", "d">>]>>,
       <<[lit |-> <<"s", "e", "x", "e", "s">>, pre |-> "any", no |-> {}, cut |-> 5, add |-> <<"s", "e", "x">>]>>,
       <<[lit |-> <<"m", "o", "v", "e", "s">>, pre |-> "any", no |-> {}, cut |-> 5, add |-> <<"m", "o", "v", "e">>]>>,
       <<[lit |-> <<"m", "o", "m", "b", "i", "e", "s">>, pre |-> "any", no |-> {}, cut |-> 7, add |-> <<"m", "o", "m", "b", "i", "e">>]>> >>
\* singularInflections of the library in the order they are tried, the
\* last of its table first; the alternatives of a rule are written out, the
\* longer before the shorter. cut is the number of characters taken from the
\* end of the word, those the rule does not capture, and add the text the
\* replacement writes after the captured ones
SingularInflections ==
    << \* (database)s$
       << [lit |-> <<"d", "a", "t", "a", "b", "a", "s", "e", "s">>, pre |-> "any", no |-> {}, cut |-> 1, add |-> <<>>] >>,
       \* (quiz)zes$
       << [lit |-> <<"q", "u", "i", "z", "z", "e", "s">>, pre |-> "any", no |-> {}, cut |-> 3, add |-> <<>>] >>,
       \* (matr)ices$
       << [lit |-> <<"m", "a", "t", "r", "i", "c", "e", "s">>, pre |-> "any", no |-> {}, cut |-> 4, add |-> <<"i", "x">>] >>,
       \* (vert|ind)ices$
       << [lit |-> <<"v", "e", "r", "t", "i", "c", "e", "s">>, pre |-> "any", no |-> {}, cut |-> 4, add |-> <<"e", "x">>],
          [lit |-> <<"i", "n", "d", "i", "c", "e", "s">>, pre |-> "any", no |-> {}, cut |-> 4, add |-> <<"e", "x">>] >>,
       \* ^(ox)en
       << [lit |-> <<"o", "x", "e", "n">>, pre |-> "prefix", no |-> {}, cut |-> 2, add |-> <<>>] >>,
       \* (alias|status)(es)?$
       << [lit |-> <<"a", "l", "i", "a", "s", "e", "s">>, pre |-> "any", no |-> {}, cut |-> 2, add |-> <<>>],
          [lit |-> <<"s", "t", "a", "t", "u", "s", "e", "s">>, pre |-> "any", no |-> {}, cut |-> 2, add |-> <<>>],
          [lit |-> <<"a", "l", "i", "a", "s">>, pre |-> "any", no |-> {}, cut |-> 0, add |-> <<>>],
          [lit |-> <<"s", "t", "a", "t", "u", "s">>, pre |-> "any", no |-> {}, cut |-> 0, add |-> <<>>] >>,
       \* (octop|vir)(us|i)$
       << [lit |-> <<"o", "c", "t", "o", "p", "u", "s">>, pre |-> "any", no |-> {}, cut |-> 2, add |-> <<"u", "s">>],
          [lit |-> <<"o", "c", "t", "o", "p", "i">>, pre |-> "any", no |-> {}, cut |-> 1, add |-> <<"u", "s">>],
          [lit |-> <<"v", "i", "r", "u", "s">>, pre |-> "any", no |-> {}, cut |-> 2, add |-> <<"u", "s">>],
          [lit |-> <<"v", "i", "r", "i">>, pre |-> "any", no |-> {}, cut |-> 1, add |-> <<"u", "s">>] >>,
       \* ^(a)x[ie]s$
       << [lit |-> <<"a", "x", "i", "s">>, pre |-> "start", no |-> {}, cut |-> 3, add |-> <<"x", "i", "s">>],
          [lit |-> <<"a", "x", "e", "s">>, pre |-> "start", no |-> {}, cut |-> 3, add |-> <<"x", "i", "s">>] >>,
       \* (cris|test)(is|es)$
       << [lit |-> <<"c", "r", "i", "s", "i", "s">>, pre |-> "any", no |-> {}, cut |-> 2, add |-> <<"i", "s">>],
          [lit |-> <<"c", "r", "i", "s", "e", "s">>, pre |-> "any", no |-> {}, cut |-> 2, add |-> <<"i", "s">>],
          [lit |-> <<"t", "e", "s", "t", "i", "s">>, pre |-> "any", no |-> {}, cut |-> 2, add |-> <<"i", "s">>],
          [lit |-> <<"t", "e", "s", "t", "e", "s">>, pre |-> "any", no |-> {}, cut |-> 2, add |-> <<"i", "s">>] >>,
       \* (shoe)s$
       << [lit |-> <<"s", "h", "o", "e", "s">>, pre |-> "any", no |-> {}, cut |-> 1, add |-> <<>>] >>,
       \* (o)es$
       << [lit |-> <<"o", "e", "s">>, pre |-> "any", no |-> {}, cut |-> 2, add |-> <<>>] >>,
       \* (bus)(es)?$
       << [lit |-> <<"b", "u", "s", "e", "s">>, pre |-> "any", no |-> {}, cut |-> 2, add |-> <<>>],
          [lit |-> <<"b", "u", "s">>, pre |-> "any", no |-> {}, cut |-> 0, add |-> <<>>] >>,
       \* (m|l)ice$
       << [lit |-> <<"m", "i", "c", "e">>, pre |-> "any", no |-> {}, cut |-> 3, add |-> <<"o", "u", "s", "e">>],
          [lit |-> <<"l", "i", "c", "e">>, pre |-> "any", no |-> {}, cut |-> 3, add |-> <<"o", "u", "s", "e">>] >>,
       \* (x|ch|ss|sh)es$
       << [lit |-> <<"c", "h", "e", "s">>, pre |-> "any", no |-> {}, cut |-> 2, add |-> <<>>],
          [lit |-> <<"s", "s", "e", "s">>, pre |-> "any", no |-> {}, cut |-> 2, add |-> <<>>],
          [lit |-> <<"s", "h", "e", "s">>, pre |-> "any", no |-> {}, cut |-> 2, add |-> <<>>],
          [lit |-> <<"x", "e", "s">>, pre |-> "any", no |-> {}, cut |-> 2, add |-> <<>>] >>,
       \* (c)hildren$
       << [lit |-> <<"c", "h", "i", "l", "d", "r", "e", "n">>, pre |-> "any", no |-> {}, cut |-> 7, add |-> <<"h", "i", "l", "d">>] >>,
       \* (m)ovies$
       << [lit |-> <<"m", "o", "v", "i", "e", "s">>, pre |-> "any", no |-> {}, cut |-> 5, add |-> <<"o", "v", "i", "e">>] >>,
       \* (s)eries$
       << [lit |-> <<"s", "e", "r", "i", "e", "s">>, pre |-> "any", no |-> {}, cut |-> 5, add |-> <<"e", "r", "i", "e", "s">>] >>,
       \* ([^aeiouy]|qu)ies$
       << [lit |-> <<"q", "u", "i", "e", "s">>, pre |-> "any", no |-> {}, cut |-> 3, add |-> <<"y">>],
          [lit |-> <<"i", "e", "s">>, pre |-> "no", no |-> {"a", "e", "i", "o", "u", "y"}, cut |-> 3, add |-> <<"y">>] >>,
       \* ([lr])ves$
       << [lit |-> <<"l", "v", "e", "s">>, pre |-> "any", no |-> {}, cut |-> 3, add |-> <<"f">>],
          [lit |-> <<"r", "v", "e", "s">>, pre |-> "any", no |-> {}, cut |-> 3, add |-> <<"f">>] >>,
       \* (tive)s$
       << [lit |-> <<"t", "i", "v", "e", "s">>, pre |-> "any", no |-> {}, cut |-> 1, add |-> <<>>] >>,
       \* (hive)s$
       << [lit |-> <<"h", "i", "v", "e", "s">>, pre |-> "any", no |-> {}, cut |-> 1, add |-> <<>>] >>,
       \* ([^f])ves$
       << [lit |-> <<"v", "e", "s">>, pre |-> "no", no |-> {"f"}, cut |-> 3, add |-> <<"f", "e">>] >>,
       \* (^analy)(sis|ses)$
       << [lit |-> <<"a", "n", "a", "l", "y", "s", "i", "s">>, pre |-> "start", no |-> {}, cut |-> 3, add |-> <<"s", "i", "s">>],
          [lit |-> <<"a", "n", "a", "l", "y", "s", "e", "s">>, pre |-> "start", no |-> {}, cut |-> 3, add |-> <<"s", "i", "s">>] >>,
       \* ((a)naly|(b)a|(d)iagno|(p)arenthe|(p)rogno|(s)ynop|(t)he)(sis|ses)$
       << [lit |-> <<"p", "a", "r", "e", "n", "t", "h", "e", "s", "i", "s">>, pre |-> "any", no |-> {}, cut |-> 3, add |-> <<"s", "i", "s">>],
          [lit |-> <<"p", "a", "r", "e", "n", "t", "h", "e", "s", "e", "s">>, pre |-> "any", no |-> {}, cut |-> 3, add |-> <<"s", "i", "s">>],
          [lit |-> <<"d", "i", "a", "g", "n", "o", "s", "i", "s">>, pre |-> "any", no |-> {}, cut |-> 3, add |-> <<"s", "i", "s">>],
          [lit |-> <<"d", "i", "a", "g", "n", "o", "s", "e", "s">>, pre |-> "any", no |-> {}, cut |-> 3, add |-> <<"s", "i", "s">>],
          [lit |-> <<"p", "r", "o", "g", "n", "o", "s", "i", "s">>, pre |-> "any", no |-> {}, cut |-> 3, add |-> <<"s", "i", "s">>],
          [lit |-> <<"p", "r", "o", "g", "n", "o", "s", "e", "s">>, pre |-> "any", no |-> {}, cut |-> 3, add |-> <<"s", "i", "s">>],
          [lit |-> <<"a", "n", "a", "l", "y", "s", "i", "s">>, pre |-> "any", no |-> {}, cut |-> 3, add |-> <<"s", "i", "s">>],
          [lit |-> <<"a", "n", "a", "l", "y", "s", "e", "s">>, pre |-> "any", no |-> {}, cut |-> 3, add |-> <<"s", "i", "s">>],
          [lit |-> <<"s", "y", "n", "o", "p", "s", "i", "s">>, pre |-> "any", no |-> {}, cut |-> 3, add |-> <<"s", "i", "s">>],
          [lit |-> <<"s", "y", "n", "o", "p", "s", "e", "s">>, pre |-> "any", no |-> {}, cut |-> 3, add |-> <<"s", "i", "s">>],
          [lit |-> <<"t", "h", "e", "s", "i", "s">>, pre |-> "any", no |-> {}, cut |-> 3, add |-> <<"s", "i", "s">>],
          [lit |-> <<"t", "h", "e", "s", "e", "s">>, pre |-> "any", no |-> {}, cut |-> 3, add |-> <<"s", "i", "s">>],
          [lit |-> <<"b", "a", "s", "i", "s">>, pre |-> "any", no |-> {}, cut |-> 3, add |-> <<"s", "i", "s">>],
          [lit |-> <<"b", "a", "s", "e", "s">>, pre |-> "any", no |-> {}, cut |-> 3, add |-> <<"s", "i", "s">>] >>,
       \* ([ti])a$
       << [lit |-> <<"t", "a">>, pre |-> "any", no |-> {}, cut |-> 1, add |-> <<"u", "m">>],
          [lit |-> <<"i", "a">>, pre |-> "any", no |-> {}, cut |-> 1, add |-> <<"u", "m">>] >>,
       \* (n)ews$
       << [lit |-> <<"n", "e", "w", "s">>, pre |-> "any", no |-> {}, cut |-> 3, add |-> <<"e", "w", "s">>] >>,
       \* (ss)$
       << [lit |-> <<"s", "s">>, pre |-> "any", no |-> {}, cut |-> 0, add |-> <<>>] >>,
       \* s$
       << [lit |-> <<"s">>, pre |-> "any", no |-> {}, cut |-> 1, add |-> <<>>] >> >>

\* the three forms a rule is compiled in, in the order they are tried: an
\* irregular word in upper case, with a capital and as written; an ending in
\* upper case, as written and with (?i)
IrregularForms == <<"upper", "title", "plain">>
RegularForms == <<"upper", "plain", "fold">>

\* the text l of a rule in the form v
inForm(v, l) ==
    [k \in 1..Len(l) |->
        IF v = "upper" \/ (v = "title" /\ k = 1) THEN ToUpper(l[k]) ELSE l[k]]

\* the character c matches the character p of a rule in the form v
charIs(v, c, p) == IF v = "fold" THEN SimpleFold(c) = p ELSE c = p

endsWith(v, w, p) ==
    /\ Len(w) >= Len(p)
    /\ \A k \in 1..Len(p) : charIs(v, w[Len(w) - Len(p) + k], p[k])

startsWith(v, w, p) ==
    /\ Len(w) >= Len(p)
    /\ \A k \in 1..Len(p) : charIs(v, w[k], p[k])

\* the alternative a of a rule matches the word w in the form v: at the end
\* of the word, after a character outside a.no, as the whole word (^ ... $)
\* or at its start (^ without $)
altMatches(v, w, a) ==
    CASE a.pre = "prefix" -> startsWith(v, w, inForm(v, a.lit))
      [] a.pre = "start" -> Len(w) = Len(a.lit) /\ endsWith(v, w, inForm(v, a.lit))
      [] a.pre = "no" ->
            /\ Len(w) > Len(a.lit)
            /\ endsWith(v, w, inForm(v, a.lit))
            /\ \A x \in a.no : ~charIs(v, w[Len(w) - Len(a.lit)], inForm(v, <<x>>)[1])
      [] OTHER -> endsWith(v, w, inForm(v, a.lit))

\* ReplaceAllString for the alternative a
altApply(v, w, a) ==
    IF a.pre = "prefix"
    THEN SubSeq(w, 1, Len(a.lit) - a.cut) \o inForm(v, a.add)
         \o SubSeq(w, Len(a.lit) + 1, Len(w))
    ELSE SubSeq(w, 1, Len(w) - a.cut) \o inForm(v, a.add)

\* the rule r of rules matches w in the form f
ruleMatches(w, rules, forms, r, f) ==
    \E j \in 1..Len(rules[r]) : altMatches(forms[f], w, rules[r][j])

\* the first alternative of the rule that matches
firstAlt(v, w, alts) ==
    alts[CHOOSE j \in 1..Len(alts) :
            /\ altMatches(v, w, alts[j])
            /\ \A i \in 1..(j - 1) : ~altMatches(v, w, alts[i])]

\* the first of the pairs of a rule and a form, in the order they are tried
firstPair(S) ==
    CHOOSE p \in S : \A q \in S : p[1] < q[1] \/ (p[1] = q[1] /\ p[2] <= q[2])

inflectWith(w, rules, forms, S) ==
    IF S = {} THEN [ok |-> FALSE, out |-> w]
    ELSE [ok |-> TRUE,
          out |-> altApply(forms[firstPair(S)[2]], w,
                           firstAlt(forms[firstPair(S)[2]], w, rules[firstPair(S)[1]]))]

\* the first rule of rules that matches w in one of its forms, applied;
\* none: w with ok = FALSE
firstInflection(w, rules, forms) ==
    inflectWith(w, rules, forms,
                {p \in (1..Len(rules)) \X (1..Len(forms)) :
                    ruleMatches(w, rules, forms, p[1], p[2])})

singularRegular(w, irregular) ==
    IF irregular.ok THEN irregular.out
    ELSE firstInflection(w, SingularInflections, RegularForms).out

\* inflection.Singular
Singular(word) ==
    IF \E u \in UncountableInflections :
          Len(u) = Len(word) /\ endsWith("fold", word, u)
    THEN word
    ELSE singularRegular(word,
             firstInflection(word, IrregularInflections, IrregularForms))

\* the Go nil handed to the driver as the id parameter
Nil == "nil"

\* mutant: the after image is asked before the before image
pickIDAfterFirst(table, before, after) ==
    LET singularID == Singular(BaseTableName(table)) \o <<"_", "i", "d">> IN
    IF HasKey(after, ID) THEN after.kv[ID]
    ELSE IF HasKey(before, ID) THEN before.kv[ID]
    ELSE IF HasKey(after, singularID) THEN after.kv[singularID]
    ELSE IF HasKey(before, singularID) THEN before.kv[singularID]
    ELSE Nil

pickID(table, before, after) ==
    LET singularID == Singular(BaseTableName(table)) \o <<"_", "i", "d">> IN
    IF HasKey(before, ID) THEN before.kv[ID]
    ELSE IF HasKey(after, ID) THEN after.kv[ID]
    ELSE IF HasKey(before, singularID) THEN before.kv[singularID]
    ELSE IF HasKey(after, singularID) THEN after.kv[singularID]
    ELSE Nil

\* json.Marshal of a row image: an error for an unsupported value, the JSON
\* null for the nil map, a JSON object otherwise
MarshalFails(m) == ~m.isNil /\ \E k \in DOMAIN m.kv : m.kv[k] = NaN
Marshal(m) == IF m.isNil THEN [json |-> "null", obj |-> <<>>]
              ELSE [json |-> "object", obj |-> m.kv]

(***************************************************************************)
(* internal/buffer                                                         *)
(***************************************************************************)
\* mutant: Add puts the entry at the front
AddFront(ts, t) == <<t>> \o ts

Add(ts, t) == Append(ts, t)

\* mutant: Drain returns the entries and keeps them
DrainKeeps(ts) == [out |-> ts, ts |-> ts]

Drain(ts) == [out |-> ts, ts |-> <<>>]

\* mutant: Reset leaves the entries in place
ResetKeeps(ts) == ts

Reset(ts) == Drain(ts).ts

\* sync.Mutex: the goroutine holding it, or Unlocked
Unlocked == 0

\* mutant: Lock returns at once, whoever holds the mutex
LockAtOnce(m, p) == [ok |-> TRUE, mu |-> p]

\* b.mu.Lock() called by p: it returns, with p holding the mutex, once the
\* mutex is free
Lock(m, p) == [ok |-> m = Unlocked, mu |-> p]

\* b.mu.Unlock()
Unlock(m) == Unlocked

(***************************************************************************)
(* The underlying *sql.Tx and the database behind it.                      *)
(*   "open"       statements run                                           *)
(*   "aborted"    a statement failed and the database refuses the rest     *)
(*   "committed", "rolledback"   the transaction is done (ErrTxDone)       *)
(***************************************************************************)
TxDone(st) == st \in {"committed", "rolledback"}

\* t.Tx.ExecContext / t.Tx.QueryContext: stmtOk says whether the statement
\* succeeds; aborts whether its failure aborts the transaction (the server
\* refused the statement) or leaves it usable (the error was raised before the
\* statement reached the server)
TxExec(st, stmtOk, aborts) ==
    IF TxDone(st) THEN [err |-> "ErrTxDone", st |-> st]
    ELSE IF st = "aborted" THEN [err |-> "aborted", st |-> st]
    ELSE IF stmtOk THEN [err |-> "nil", st |-> st]
    ELSE [err |-> "db", st |-> IF aborts THEN "aborted" ELSE "open"]

\* t.Tx.Commit: an aborted transaction is rolled back by COMMIT
TxCommit(st, commitOk) ==
    IF TxDone(st) THEN [err |-> "ErrTxDone", st |-> st]
    ELSE IF st = "open" /\ commitOk THEN [err |-> "nil", st |-> "committed"]
    ELSE [err |-> "db", st |-> "rolledback"]

\* t.Tx.Rollback
TxRollback(st, rollbackOk) ==
    IF TxDone(st) THEN [err |-> "ErrTxDone", st |-> st]
    ELSE [err |-> IF rollbackOk THEN "nil" ELSE "db", st |-> "rolledback"]

\* what the database does with a statement built by flush and the seven
\* arguments ExecContext hands over with it: "row" a history row is inserted,
\* "fail" the statement is refused for its table, "refused" it is refused for
\* its arguments.  The plain INSERT has the parameters $1..$7.  The guarded
\* statement is a DO command: DO takes no parameters, the $1..$7 stand inside
\* its dollar-quoted body, so the seven arguments do not fit it and it is
\* refused before the body and its to_regclass guard run, whether or not the
\* history table exists
HistoryStmt(stmt) ==
    IF stmt.guarded THEN "refused"
    ELSE IF stmt.ident \in DBTables THEN "row" ELSE "fail"

(***************************************************************************)
(* The wrapped transaction.                                                *)
(***************************************************************************)
VARIABLES
    cfg,        \* Handler.cfg: SkipIfNotExists and the Redact map
    buf,        \* tx.buf.ts, the buffered capture entries
    utx,        \* the state of the underlying *sql.Tx
    hist,       \* the history statements flush handed to t.Tx.ExecContext, in order
    captured,   \* every entry ever added to the buffer, in capture order
    last,       \* what the last call on the wrapper did and returned
    nExec,      \* ExecContext calls made
    nCommit,    \* Commit calls made
    nRollback,  \* Rollback calls made
    flushes,    \* times flush was entered
    dropped,    \* entries a failed flush drained and did not reach
    discarded,  \* entries Rollback discarded
    mu,         \* Buffer.mu: the caller holding the mutex, or Unlocked
    pc,         \* where each concurrent caller of the Buffer stands in its call
    loc,        \* each caller's call: its argument and the b.ts it has read
    calls,      \* the Buffer calls that returned, in order of return
    started,    \* the number of Buffer calls each caller has made
    run,        \* the ExecContext and the Commit under way on two goroutines
    app         \* the last direct call of a library function: its input and output

txvars == <<cfg, utx, hist, captured, last, nExec, nCommit, nRollback, flushes,
            dropped, discarded>>
bufvars == <<mu, pc, loc, calls, started>>
libvars == <<app>>
runvars == <<run>>
vars == <<txvars, buf, bufvars, libvars, runvars>>

\* no library function has been called directly
NoApp == [fn |-> "none"]

\* no call is under way: exec is the goroutine calling ExecContext, with the
\* statement s it runs, the rows it read, the entries es it has to add and
\* the number k of them it has added; commit is the goroutine calling Commit,
\* with the rows its flush drained and the index i of the one it is at
NoRun == [exec |-> [pc |-> "idle", s |-> "", rows |-> <<>>, es |-> <<>>, k |-> 0],
          commit |-> [pc |-> "idle", rows |-> <<>>, i |-> 0, err |-> "nil"]]

\* the goroutines that share one Buffer
Procs == 1..MaxProcs

\* a goroutine outside any Buffer call
NoBufferCall == [op |-> "", t |-> <<>>, ts |-> <<>>, at |-> 0, alone |-> TRUE]

\* NewBuffer: the zero mutex and the nil slice (buf), nobody calling
BufferInit ==
    /\ mu = Unlocked
    /\ pc = [p \in Procs |-> "idle"]
    /\ loc = [p \in Procs |-> NoBufferCall]
    /\ calls = <<>>
    /\ started = [p \in Procs |-> 0]

\* the zero meta struct, and the metadata of the demo
NoMeta == [operator |-> "", traceID |-> "", reason |-> ""]
DemoMeta == [operator |-> "demo-user", traceID |-> "trace-demo-001", reason |-> "demo run"]

\* a context.Context is the chain of the values attached to it, the latest
\* last; context.Background() carries none
Background == <<>>
WithValue(ctx, key, val) == Append(ctx, [key |-> key, val |-> val])
\* ctx.Value(key): the value attached last under the key, if any
Value(ctx, key) ==
    LET at == {i \in 1..Len(ctx) : ctx[i].key = key} IN
    IF at = {} THEN [ok |-> FALSE, val |-> NoMeta]
    ELSE [ok |-> TRUE, val |-> ctx[CHOOSE i \in at : \A j \in at : j <= i].val]

\* mutant: the metadata is the zero meta struct, whatever the context carries
extractMetaZero(ctx) == NoMeta

extractMeta(ctx) ==
    LET v == Value(ctx, "metaKey") IN IF v.ok THEN v.val ELSE NoMeta

WithOperator(ctx, v) == WithValue(ctx, "metaKey", [extractMeta(ctx) EXCEPT !.operator = v])
WithTraceID(ctx, v) == WithValue(ctx, "metaKey", [extractMeta(ctx) EXCEPT !.traceID = v])
WithReason(ctx, v) == WithValue(ctx, "metaKey", [extractMeta(ctx) EXCEPT !.reason = v])

\* WithSkip marks the context; extractSkip reads the mark
WithSkip(ctx) == WithValue(ctx, "skipKey", TRUE)
extractSkip(ctx) ==
    LET v == Value(ctx, "skipKey") IN IF v.ok THEN v.val ELSE FALSE

\* the context of the demo, and one with a reason only
DemoCtx ==
    WithReason(WithTraceID(WithOperator(Background, "demo-user"), "trace-demo-001"), "demo run")
CleanupCtx == WithReason(Background, "cleanup")
\* the context of a call that is to bypass capture
SkipCtx == WithSkip(Background)
\* the context given to BeginTx, kept as t.ctx
TxCtx == WithOperator(Background, "admin")

\* the ExecContext calls the caller makes: the context with the metadata the
\* caller attached to it, the statement and its arguments, with what ParseDML
\* makes of the statement
Stmts == {
    [q |-> "INSERT INTO o(id) VALUES ($1) RETURNING *", args |-> <<"a">>,
     ctx |-> DemoCtx, attached |-> DemoMeta,
     ok |-> TRUE, Op |-> "INSERT", Table |-> Orders, HasReturning |-> TRUE],
    [q |-> "UPDATE o SET status=$1", args |-> <<"paid">>,
     ctx |-> Background, attached |-> NoMeta,
     ok |-> TRUE, Op |-> "UPDATE", Table |-> Orders, HasReturning |-> FALSE],
    [q |-> "DELETE FROM o WHERE id=$1 RETURNING *", args |-> <<"a">>,
     ctx |-> CleanupCtx, attached |-> [operator |-> "", traceID |-> "", reason |-> "cleanup"],
     ok |-> TRUE, Op |-> "DELETE", Table |-> Orders, HasReturning |-> TRUE],
    [q |-> "UPDATE p SET status=$1 RETURNING *", args |-> <<"paid">>,
     ctx |-> DemoCtx, attached |-> DemoMeta,
     ok |-> TRUE, Op |-> "UPDATE", Table |-> Payments, HasReturning |-> TRUE],
    [q |-> "DELETE FROM o WHERE expired", args |-> <<>>,
     ctx |-> SkipCtx, attached |-> NoMeta,
     ok |-> TRUE, Op |-> "DELETE", Table |-> Orders, HasReturning |-> FALSE],
    [q |-> "SELECT 1", args |-> <<>>,
     ctx |-> Background, attached |-> NoMeta,
     ok |-> FALSE, Op |-> "", Table |-> <<>>, HasReturning |-> FALSE] }

\* sequences of length 0..n over S
SeqsUpTo(S, n) == UNION {[1..k -> S] : k \in 0..n}

\* what the driver's cursor holds: the rows it yields, and whether
\* iterating or scanning fails after them
Cursors == [rows : SeqsUpTo(Images, MaxRows), fails : BOOLEAN]
NoCursor == [rows |-> <<>>, fails |-> TRUE]

\* mutant: a failure after rows were scanned is dropped and the rows returned
scanAllPartial(cur) ==
    IF Len(cur.rows) = 0
    THEN [ms |-> <<>>, n |-> 0, err |-> IF cur.fails THEN "scan" ELSE "ErrNoRows"]
    ELSE [ms |-> cur.rows, n |-> Len(cur.rows), err |-> "nil"]

\* what scanAll returns before its deferred call runs: rows.Columns() may
\* fail, then a Scan or rows.Err(), and no row at all is sql.ErrNoRows
scanAllReturns(columnsErr, rows, fails) ==
    IF columnsErr THEN [ms |-> <<>>, n |-> 0, err |-> "columns"]
    ELSE IF fails THEN [ms |-> <<>>, n |-> 0, err |-> "scan"]
    ELSE IF Len(rows) = 0 THEN [ms |-> <<>>, n |-> 0, err |-> "ErrNoRows"]
    ELSE [ms |-> rows, n |-> Len(rows), err |-> "nil"]

\* what sql.go's scanOne returns before its deferred call runs.  failAt is
\* the place where the cursor fails: 0 nowhere, k the Scan of row k, one past
\* the last row the iteration after it.  scanOne asks for one row and never
\* for rows.Err(): a cursor without a row is sql.ErrNoRows whatever ended it,
\* and a failure after the first row is not seen
scanOneReturns(columnsErr, rows, failAt) ==
    IF columnsErr THEN [ms |-> <<>>, n |-> 0, err |-> "columns"]
    ELSE IF Len(rows) = 0 THEN [ms |-> <<>>, n |-> 0, err |-> "ErrNoRows"]
    ELSE IF failAt = 1 THEN [ms |-> <<>>, n |-> 0, err |-> "scan"]
    ELSE [ms |-> <<rows[1]>>, n |-> 1, err |-> "nil"]

\* mutant: scanOne, which consumes the first row only; the failure of the
\* cursor, if any, comes after its rows
scanOne(cur) ==
    [ms |-> scanOneReturns(FALSE, cur.rows, IF cur.fails THEN Len(cur.rows) + 1 ELSE 0).ms,
     n |-> scanOneReturns(FALSE, cur.rows, IF cur.fails THEN Len(cur.rows) + 1 ELSE 0).n,
     err |-> scanOneReturns(FALSE, cur.rows, IF cur.fails THEN Len(cur.rows) + 1 ELSE 0).err,
     closed |-> TRUE]

\* mutant: rows.Close() is called before the last return only
deferredAtEnd(r) == [ms |-> r.ms, n |-> r.n, err |-> r.err, closed |-> r.err = "nil"]

\* defer rows.Close(): the call runs when the function returns, whatever
\* the return
deferred(r) == [ms |-> r.ms, n |-> r.n, err |-> r.err, closed |-> TRUE]

\* scanAll on the cursor of a query that succeeded
scanAll(cur) == deferred(scanAllReturns(FALSE, cur.rows, cur.fails))

\* an sql.Result: none (nil), the driver's for statement q, or gostry's
\* affectedResult{n}
NilResult == [from |-> "nil", q |-> "", n |-> 0]
DriverResult(q) == [from |-> "driver", q |-> q, n |-> 0]
newAffectedRows(n) == [from |-> "affectedResult", q |-> "", n |-> n]

\* mutant: LastInsertId answers with the row count
LastInsertIdOfCount(r) == [v |-> r.n, err |-> "nil"]

\* affectedResult.LastInsertId and affectedResult.RowsAffected
LastInsertId(r) == [v |-> 0, err |-> "not supported"]
RowsAffected(r) == [v |-> r.n, err |-> "nil"]

Eids(es) == {es[i].eid : i \in 1..Len(es)}

\* last: the call, the error it returned, the error of its flush, whether it
\* invoked the underlying Commit or Rollback, the entries it drained for
\* flushing, the entries it added, the length of hist and the state of the
\* underlying transaction when it started, and what the database was set to
\* do (envOk: it refuses no statement and no commit for reasons of its own)
NoCall == [call |-> "BeginTx", err |-> "nil", flushErr |-> "nil", invoked |-> FALSE,
           drained |-> {}, added |-> 0, before |-> 0, pre |-> "open", envOk |-> TRUE]

Init ==
    /\ cfg \in [SkipIfNotExists : BOOLEAN, Redact : {NoRedact, ID :> MaskFunc}]
    /\ buf = <<>>
    /\ utx = "open"
    /\ hist = <<>>
    /\ captured = <<>>
    /\ last = NoCall
    /\ nExec = 0
    /\ nCommit = 0
    /\ nRollback = 0
    /\ flushes = 0
    /\ dropped = {}
    /\ discarded = {}
    /\ BufferInit
    /\ app = NoApp
    /\ run = NoRun

applyRedact(m) == applyRedactWith(cfg.Redact, m)

\* mutant: every entry carries the row image on both sides
NewEntriesBothSides(s, ms, base) ==
    IF ~s.HasReturning
    THEN << [eid |-> base + 1, table |-> s.Table, op |-> s.Op, sql |-> s.q, args |-> s.args,
             before |-> NilMap, after |-> NilMap, meta |-> extractMeta(s.ctx)] >>
    ELSE [i \in 1..Len(ms) |->
             [eid |-> base + i, table |-> s.Table, op |-> s.Op, sql |-> "", args |-> <<>>,
              before |-> ms[i], after |-> ms[i], meta |-> extractMeta(s.ctx)]]

\* the entries one ExecContext call adds, in order: one per row with
\* RETURNING, one for the statement without
NewEntries(s, ms, base) ==
    IF ~s.HasReturning
    THEN << [eid |-> base + 1, table |-> s.Table, op |-> s.Op, sql |-> s.q, args |-> s.args,
             before |-> NilMap, after |-> NilMap, meta |-> extractMeta(s.ctx)] >>
    ELSE [i \in 1..Len(ms) |->
             [eid |-> base + i, table |-> s.Table, op |-> s.Op, sql |-> "", args |-> <<>>,
              before |-> IF s.Op = "DELETE" THEN ms[i] ELSE NilMap,
              after |-> IF s.Op = "DELETE" THEN NilMap ELSE ms[i],
              meta |-> extractMeta(s.ctx)]]

RECURSIVE AddAll(_, _)
AddAll(ts, es) == IF es = <<>> THEN ts ELSE AddAll(Add(ts, Head(es)), Tail(es))

\* the call ExecContext hands to the underlying transaction, and what that
\* returns: the driver's result, or none with an error
Forward(method, s) == [method |-> method, ctx |-> s.ctx, q |-> s.q, args |-> s.args]
Underlying(x, s) ==
    [res |-> IF x.err = "nil" THEN DriverResult(s.q) ELSE NilResult, err |-> x.err]

\* mutant: a statement ParseDML does not recognise is recorded all the same
passThroughRecords(s, st, stmtOk, aborts, base) ==
    LET x == TxExec(st, stmtOk, aborts) IN
    [err |-> x.err, res |-> Underlying(x, s).res, st |-> x.st,
     es |-> IF x.err = "nil"
            THEN << [eid |-> base + 1, table |-> s.Table, op |-> s.Op, sql |-> s.q,
                     args |-> s.args, before |-> NilMap, after |-> NilMap,
                     meta |-> extractMeta(s.ctx)] >>
            ELSE <<>>,
     fwd |-> Forward("ExecContext", s), under |-> Underlying(x, s),
     issued |-> <<Forward("ExecContext", s)>>]

\* tx.ExecContext, a statement ParseDML does not recognise: pass-through
passThrough(s, st, stmtOk, aborts, base) ==
    LET x == TxExec(st, stmtOk, aborts) IN
    [err |-> x.err, res |-> Underlying(x, s).res, st |-> x.st, es |-> <<>>,
     fwd |-> Forward("ExecContext", s), under |-> Underlying(x, s),
     issued |-> <<Forward("ExecContext", s)>>]

\* mutant: the entry is added whether or not the statement succeeded
execNoReturningAlways(s, st, stmtOk, aborts, base) ==
    LET x == TxExec(st, stmtOk, aborts) IN
    [err |-> x.err, res |-> Underlying(x, s).res, st |-> x.st,
     es |-> NewEntries(s, <<>>, base),
     fwd |-> Forward("ExecContext", s), under |-> Underlying(x, s),
     issued |-> <<Forward("ExecContext", s)>>]

\* tx.ExecContext, a recognised statement without RETURNING
execNoReturning(s, st, stmtOk, aborts, base) ==
    LET x == TxExec(st, stmtOk, aborts) IN
    [err |-> x.err, res |-> Underlying(x, s).res, st |-> x.st,
     es |-> IF x.err = "nil" THEN NewEntries(s, <<>>, base) ELSE <<>>,
     fwd |-> Forward("ExecContext", s), under |-> Underlying(x, s),
     issued |-> <<Forward("ExecContext", s)>>]

\* mutant: the statement is run by ExecContext as well, after its rows were read
execReturningAlsoExecs(s, st, stmtOk, aborts, cur, base) ==
    LET x == TxExec(st, stmtOk, aborts)
        r == scanAll(cur)
        none == [err |-> x.err, res |-> NilResult, st |-> x.st, es |-> <<>>,
                 fwd |-> Forward("QueryContext", s), under |-> Underlying(x, s),
                 issued |-> <<Forward("QueryContext", s)>>]
    IN IF x.err # "nil" THEN none
       ELSE IF r.err # "nil" THEN [none EXCEPT !.err = r.err]
       ELSE [none EXCEPT !.err = "nil", !.res = newAffectedRows(r.n),
                         !.es = NewEntries(s, r.ms, base),
                         !.issued = <<Forward("QueryContext", s), Forward("ExecContext", s)>>]

\* tx.ExecContext, a recognised statement with RETURNING
execReturning(s, st, stmtOk, aborts, cur, base) ==
    LET x == TxExec(st, stmtOk, aborts)
        r == scanAll(cur)
        none == [err |-> x.err, res |-> NilResult, st |-> x.st, es |-> <<>>,
                 fwd |-> Forward("QueryContext", s), under |-> Underlying(x, s),
                 issued |-> <<Forward("QueryContext", s)>>]
    IN IF x.err # "nil" THEN none
       ELSE IF r.err # "nil" THEN [none EXCEPT !.err = r.err]
       ELSE [none EXCEPT !.err = "nil", !.res = newAffectedRows(r.n),
                         !.es = NewEntries(s, r.ms, base)]

\* tx.ExecContext: result [err, res, st, es, fwd, under, issued] where es are
\* the entries added, fwd the call made on the underlying transaction, under
\* what that call returned and issued every call made on it, in order
ExecResult(s, st, stmtOk, aborts, cur, base) ==
    IF s.ok THEN
        IF ~s.HasReturning THEN execNoReturning(s, st, stmtOk, aborts, base)
        ELSE execReturning(s, st, stmtOk, aborts, cur, base)
    ELSE passThrough(s, st, stmtOk, aborts, base)

ExecContext(s, stmtOk, aborts, cur) ==
    /\ nExec < MaxStmts
    /\ LET r == ExecResult(s, utx, stmtOk, aborts, cur, Len(captured)) IN
        /\ buf' = AddAll(buf, r.es)
        /\ captured' = captured \o
               [i \in 1..Len(r.es) |->
                   [e |-> r.es[i], stmt |-> nExec + 1, row |-> i,
                    img |-> IF s.HasReturning THEN cur.rows[i] ELSE NilMap,
                    attached |-> s.attached]]
        /\ utx' = r.st
        /\ last' = [call |-> "ExecContext", err |-> r.err, flushErr |-> "nil", invoked |-> FALSE,
                    drained |-> {}, added |-> Len(r.es), before |-> Len(hist),
                    pre |-> utx, envOk |-> stmtOk,
                    s |-> s, res |-> r.res, fwd |-> r.fwd, under |-> r.under,
                    issued |-> r.issued,
                    returned |-> IF s.ok /\ s.HasReturning /\ r.under.err = "nil"
                                 THEN Len(cur.rows) ELSE 0,
                    scanFails |-> s.ok /\ s.HasReturning /\ r.under.err = "nil" /\ cur.fails]
    /\ nExec' = nExec + 1
    /\ UNCHANGED <<cfg, hist, nCommit, nRollback, flushes, dropped, discarded>>
    /\ UNCHANGED <<bufvars, libvars, runvars>>

\* the statement flush builds for an entry of the given table: the plain
\* INSERT, or with SkipIfNotExists the DO block guarded by to_regclass
HistoryStatement(table, skip) ==
    LET historyParts == HistoryParts(table, HistorySuffix) IN
    [guarded |-> skip,
     ident |-> QuoteQualified(historyParts),
     regclass |-> IF skip THEN QualifiedRegclassLiteral(historyParts) ELSE <<>>]

\* the loop of flush over the drained rows from index i on.  failAt is the
\* index of the entry whose history statement fails for a reason of the
\* database's own (0: none), aborts whether that failure aborts the
\* transaction.  A statement on a missing table is refused by the server.
\* Result: the error returned, the state of the underlying transaction, the
\* statements executed, and the index k of the entry the loop stopped at
\* (0: it ran to the end).
RECURSIVE flushLoop(_, _, _, _, _, _)

\* the end of one iteration: t.Tx.ExecContext on the statement built for
\* entry e, does being what the database does with it
flushExec(rows, i, st, failAt, aborts, log, e, before, after, id, stmt, does) ==
    LET x == TxExec(st, does = "row" /\ i # failAt, does = "fail" \/ aborts)
        rec == [ctx |-> TxCtx,
                eid |-> e.eid, guarded |-> stmt.guarded, ident |-> stmt.ident,
                id |-> id, op |-> e.op,
                operator |-> e.meta.operator, traceID |-> e.meta.traceID,
                reason |-> e.meta.reason,
                before |-> Marshal(before), after |-> Marshal(after),
                err |-> x.err,
                row |-> x.err = "nil" /\ does = "row"]
    IN IF x.err # "nil"
       THEN [err |-> "insert", st |-> x.st, log |-> Append(log, rec), k |-> i]
       ELSE flushLoop(rows, i + 1, x.st, failAt, aborts, Append(log, rec))

\* mutant: the id is picked from the images as they were captured
flushEntryCapturedID(rows, i, st, failAt, aborts, log, e, before, after, stmt) ==
    IF MarshalFails(before) THEN [err |-> "marshal before", st |-> st, log |-> log, k |-> i]
    ELSE IF MarshalFails(after) THEN [err |-> "marshal after", st |-> st, log |-> log, k |-> i]
    ELSE IF stmt.ident = <<>> THEN [err |-> "invalid identifier", st |-> st, log |-> log, k |-> i]
    ELSE flushExec(rows, i, st, failAt, aborts, log, e, before, after,
                   pickID(e.table, e.before, e.after), stmt, HistoryStmt(stmt))

\* one iteration for entry e, with its redacted images and the statement
\* built from its table
flushEntry(rows, i, st, failAt, aborts, log, e, before, after, stmt) ==
    IF MarshalFails(before) THEN [err |-> "marshal before", st |-> st, log |-> log, k |-> i]
    ELSE IF MarshalFails(after) THEN [err |-> "marshal after", st |-> st, log |-> log, k |-> i]
    ELSE IF stmt.ident = <<>> THEN [err |-> "invalid identifier", st |-> st, log |-> log, k |-> i]
    ELSE flushExec(rows, i, st, failAt, aborts, log, e, before, after,
                   pickID(e.table, before, after), stmt, HistoryStmt(stmt))

flushLoop(rows, i, st, failAt, aborts, log) ==
    IF i > Len(rows) THEN [err |-> "nil", st |-> st, log |-> log, k |-> 0]
    ELSE flushEntry(rows, i, st, failAt, aborts, log, rows[i],
                    applyRedact(rows[i].before), applyRedact(rows[i].after),
                    HistoryStatement(rows[i].table, cfg.SkipIfNotExists))

\* mutant: a failed flush puts the entries it did not reach back
flushRequeues(ts, st, failAt, aborts) ==
    LET rows == ts IN
    IF Len(rows) = 0
    THEN [ts |-> <<>>, rows |-> rows, err |-> "nil", st |-> st, log |-> <<>>, k |-> 0]
    ELSE LET f == flushLoop(rows, 1, st, failAt, aborts, <<>>) IN
         [ts |-> IF f.k = 0 THEN <<>> ELSE SubSeq(rows, f.k + 1, Len(rows)),
          rows |-> rows, err |-> f.err, st |-> f.st, log |-> f.log, k |-> f.k]

\* tx.flush: result [ts, rows, err, st, log, k], ts the buffer it leaves
flush(ts, st, failAt, aborts) ==
    LET d == Drain(ts)
        rows == d.out
    IN IF Len(rows) = 0
       THEN [ts |-> d.ts, rows |-> rows, err |-> "nil", st |-> st, log |-> <<>>, k |-> 0]
       ELSE LET f == flushLoop(rows, 1, st, failAt, aborts, <<>>) IN
            [ts |-> d.ts, rows |-> rows, err |-> f.err, st |-> f.st, log |-> f.log, k |-> f.k]

\* mutant: Commit commits whatever its flush returned
CommitAnyway(f, commitOk) ==
    LET c == TxCommit(f.st, commitOk) IN [err |-> c.err, st |-> c.st, invoked |-> TRUE]

\* tx.Commit after its flush returned f: [err, st, invoked], invoked telling
\* whether t.Tx.Commit was called
CommitAfter(f, commitOk) ==
    IF f.err # "nil" THEN [err |-> f.err, st |-> f.st, invoked |-> FALSE]
    ELSE LET c == TxCommit(f.st, commitOk) IN [err |-> c.err, st |-> c.st, invoked |-> TRUE]

Commit(failAt, aborts, commitOk) ==
    /\ nCommit + nRollback < MaxEnds
    /\ failAt \in 0..Len(buf)
    /\ LET f == flush(buf, utx, failAt, aborts)
           c == CommitAfter(f, commitOk)
       IN
        /\ buf' = f.ts
        /\ hist' = hist \o f.log
        /\ utx' = c.st
        /\ dropped' = dropped \cup
               (IF f.k = 0 THEN {} ELSE {f.rows[j].eid : j \in (f.k + 1)..Len(f.rows)})
        /\ last' = [call |-> "Commit", err |-> c.err, flushErr |-> f.err, invoked |-> c.invoked,
                    drained |-> Eids(f.rows), added |-> 0, before |-> Len(hist),
                    pre |-> utx, envOk |-> failAt = 0 /\ commitOk]
    /\ flushes' = flushes + 1
    /\ nCommit' = nCommit + 1
    /\ UNCHANGED <<cfg, captured, nExec, nRollback, discarded>>
    /\ UNCHANGED <<bufvars, libvars, runvars>>

\* mutant: Rollback flushes the buffer before rolling back
RollbackFlushes(rollbackOk) ==
    /\ nCommit + nRollback < MaxEnds
    /\ LET f == flush(buf, utx, 0, FALSE)
           r == TxRollback(f.st, rollbackOk)
       IN
        /\ buf' = f.ts
        /\ hist' = hist \o f.log
        /\ utx' = r.st
        /\ last' = [call |-> "Rollback", err |-> r.err, flushErr |-> f.err, invoked |-> TRUE,
                    drained |-> {}, added |-> 0, before |-> Len(hist),
                    pre |-> utx, envOk |-> rollbackOk]
    /\ discarded' = discarded
    /\ nRollback' = nRollback + 1
    /\ UNCHANGED <<cfg, captured, nExec, nCommit, flushes, dropped>>
    /\ UNCHANGED <<bufvars, libvars, runvars>>

Rollback(rollbackOk) ==
    /\ nCommit + nRollback < MaxEnds
    /\ LET r == TxRollback(utx, rollbackOk) IN
        /\ buf' = Reset(buf)
        /\ utx' = r.st
        /\ last' = [call |-> "Rollback", err |-> r.err, flushErr |-> "nil", invoked |-> TRUE,
                    drained |-> {}, added |-> 0, before |-> Len(hist),
                    pre |-> utx, envOk |-> rollbackOk]
    /\ discarded' = discarded \cup Eids(buf)
    /\ nRollback' = nRollback + 1
    /\ UNCHANGED <<cfg, hist, captured, nExec, nCommit, flushes, dropped>>
    /\ UNCHANGED <<bufvars, libvars, runvars>>

Next ==
    \/ \E s \in Stmts, stmtOk \in BOOLEAN, aborts \in BOOLEAN, cur \in Cursors :
           /\ stmtOk => ~aborts
           /\ (~stmtOk \/ ~s.HasReturning) => cur = NoCursor
           /\ ExecContext(s, stmtOk, aborts, cur)
    \/ \E failAt \in 0..MaxStmts * MaxRows, aborts \in BOOLEAN, commitOk \in BOOLEAN :
           /\ (failAt = 0) => ~aborts
           /\ (failAt # 0) => commitOk
           /\ Commit(failAt, aborts, commitOk)
    \/ \E rollbackOk \in BOOLEAN : Rollback(rollbackOk)

Spec == Init /\ [][Next]_vars

(***************************************************************************)
(* ExecContext and Commit called on one wrapped transaction by two         *)
(* goroutines.  A call is a sequence of steps: the call on the underlying  *)
(* transaction, then one step per returned row, then one Buffer.Add        *)
(* per entry; Buffer.Drain, then one history statement per drained entry,  *)
(* then the underlying Commit.  Add and Drain hold the Buffer's mutex and  *)
(* are one step each.                                                      *)
(***************************************************************************)
\* ExecContext up to the return of t.Tx.ExecContext or of t.Tx.QueryContext
ExecUnderlying(s, stmtOk, aborts) ==
    /\ run.exec.pc = "idle"
    /\ nExec < MaxStmts
    /\ utx' = TxExec(utx, stmtOk, aborts).st
    /\ run' = [run EXCEPT !.exec =
                  IF ~s.ok \/ TxExec(utx, stmtOk, aborts).err # "nil" THEN NoRun.exec
                  ELSE IF s.HasReturning
                  THEN [pc |-> "scan", s |-> s, rows |-> <<>>, es |-> <<>>, k |-> 0]
                  ELSE [pc |-> "add", s |-> s, rows |-> <<>>,
                        es |-> ExecResult(s, utx, stmtOk, aborts, NoCursor, Len(captured)).es,
                        k |-> 0]]
    /\ nExec' = nExec + 1
    /\ UNCHANGED <<cfg, buf, hist, captured, last, nCommit, nRollback, flushes,
                   dropped, discarded>>
    /\ UNCHANGED <<bufvars, libvars>>

\* scanAll: rows.Next() and rows.Scan for one more row m of the cursor
\* QueryContext returned
ExecNext(m) ==
    /\ run.exec.pc = "scan"
    /\ Len(run.exec.rows) < MaxRows
    /\ run' = [run EXCEPT !.exec.rows = Append(@, m)]
    /\ UNCHANGED <<cfg, buf, utx, hist, captured, last, nExec, nCommit, nRollback,
                   flushes, dropped, discarded>>
    /\ UNCHANGED <<bufvars, libvars>>

\* scanAll after the rows it read: the cursor fails or ends, rows.Close(),
\* and the return of the error or of no entry
ExecScan(fails) ==
    /\ run.exec.pc = "scan"
    /\ run' = [run EXCEPT !.exec =
                  IF scanAll([rows |-> run.exec.rows, fails |-> fails]).err # "nil"
                  THEN NoRun.exec
                  ELSE [pc |-> "add", s |-> run.exec.s, rows |-> run.exec.rows,
                        es |-> NewEntries(run.exec.s,
                                  scanAll([rows |-> run.exec.rows, fails |-> fails]).ms,
                                  Len(captured)),
                        k |-> 0]]
    /\ UNCHANGED <<cfg, buf, utx, hist, captured, last, nExec, nCommit, nRollback,
                   flushes, dropped, discarded>>
    /\ UNCHANGED <<bufvars, libvars>>

\* t.buf.Add(e) for the next entry, and the return after the last
ExecAdd ==
    /\ run.exec.pc = "add"
    /\ buf' = Add(buf, run.exec.es[run.exec.k + 1])
    /\ captured' = Append(captured,
           [e |-> run.exec.es[run.exec.k + 1], stmt |-> nExec, row |-> run.exec.k + 1,
            img |-> IF run.exec.s.HasReturning
                    THEN run.exec.rows[run.exec.k + 1] ELSE NilMap,
            attached |-> run.exec.s.attached])
    /\ run' = IF run.exec.k + 1 = Len(run.exec.es)
              THEN [run EXCEPT !.exec = NoRun.exec]
              ELSE [run EXCEPT !.exec.k = @ + 1]
    /\ UNCHANGED <<cfg, utx, hist, last, nExec, nCommit, nRollback, flushes,
                   dropped, discarded>>
    /\ UNCHANGED <<bufvars, libvars>>

\* Commit enters flush: rows := t.buf.Drain(), and the return of nil for no rows
CommitDrain ==
    /\ run.commit.pc = "idle"
    /\ nCommit = 0
    /\ buf' = Drain(buf).ts
    /\ run' = [run EXCEPT !.commit =
                  [pc |-> IF Len(Drain(buf).out) = 0 THEN "commit" ELSE "insert",
                   rows |-> Drain(buf).out, i |-> 1, err |-> "nil"]]
    /\ flushes' = flushes + 1
    /\ nCommit' = nCommit + 1
    /\ UNCHANGED <<cfg, utx, hist, captured, last, nExec, nRollback, dropped, discarded>>
    /\ UNCHANGED <<bufvars, libvars>>

\* one iteration of the loop of flush, with what it returned in f: the next
\* iteration, the return of its error, or the end of the loop
insertDone(f) ==
    /\ hist' = hist \o f.log
    /\ utx' = f.st
    /\ dropped' = dropped \cup
           (IF f.err = "nil" THEN {}
            ELSE {run.commit.rows[j].eid :
                      j \in (run.commit.i + 1)..Len(run.commit.rows)})
    /\ run' = [run EXCEPT !.commit.pc = IF f.err # "nil" THEN "done"
                                        ELSE IF run.commit.i = Len(run.commit.rows)
                                        THEN "commit" ELSE "insert",
                          !.commit.i = IF f.err = "nil" THEN @ + 1 ELSE @,
                          !.commit.err = f.err]

\* the iteration of the loop of flush for the drained entry rows[i]
CommitInsert(fails, aborts) ==
    /\ run.commit.pc = "insert"
    /\ insertDone(flushLoop(<<run.commit.rows[run.commit.i]>>, 1, utx,
                            IF fails THEN 1 ELSE 0, aborts, <<>>))
    /\ UNCHANGED <<cfg, buf, captured, last, nExec, nCommit, nRollback, flushes, discarded>>
    /\ UNCHANGED <<bufvars, libvars>>

\* flush returned nil: t.Tx.Commit()
CommitUnderlying(commitOk) ==
    /\ run.commit.pc = "commit"
    /\ utx' = TxCommit(utx, commitOk).st
    /\ run' = [run EXCEPT !.commit.pc = "done",
                          !.commit.err = TxCommit(utx, commitOk).err]
    /\ UNCHANGED <<cfg, buf, hist, captured, last, nExec, nCommit, nRollback, flushes,
                   dropped, discarded>>
    /\ UNCHANGED <<bufvars, libvars>>

RaceNext ==
    \/ \E s \in Stmts, stmtOk \in BOOLEAN, aborts \in BOOLEAN :
           /\ stmtOk => ~aborts
           /\ ExecUnderlying(s, stmtOk, aborts)
    \/ \E m \in Images : ExecNext(m)
    \/ \E fails \in BOOLEAN : ExecScan(fails)
    \/ ExecAdd
    \/ CommitDrain
    \/ \E fails \in BOOLEAN, aborts \in BOOLEAN :
           /\ ~fails => ~aborts
           /\ CommitInsert(fails, aborts)
    \/ \E commitOk \in BOOLEAN : CommitUnderlying(commitOk)

RaceSpec == Init /\ [][RaceNext]_vars


(***************************************************************************)
(* internal/buffer under concurrent callers.  Each goroutine makes Add,    *)
(* Drain and Reset calls on the one Buffer; a call is a sequence of steps  *)
(* (lock, read b.ts, write b.ts, unlock, return) that interleave with the  *)
(* steps of the other goroutines.  buf is b.ts.                            *)
(***************************************************************************)
\* p calls op: loc[p] keeps the argument, the number of calls that had
\* returned when this one was made, and whether no other call was under way
Call(p, op, t, next) ==
    /\ pc[p] = "idle"
    /\ Len(calls) + Cardinality({q \in Procs : pc[q] # "idle"}) < MaxCalls
    /\ started' = [started EXCEPT ![p] = @ + 1]
    /\ loc' = [loc EXCEPT ![p] = [op |-> op, t |-> t, ts |-> <<>>, at |-> Len(calls),
                                  alone |-> \A q \in Procs : pc[q] = "idle"]]
    /\ pc' = [pc EXCEPT ![p] = next]
    /\ UNCHANGED <<txvars, libvars, runvars, buf, mu, calls>>

\* the entry of p's next Add: entries are told apart by caller and call number
CallAdd(p) == Call(p, "Add", <<p, started[p] + 1>>, "AddLock")
CallDrain(p) == Call(p, "Drain", <<>>, "DrainLock")
\* Reset is a call of Drain whose result is dropped
CallReset(p) == Call(p, "Reset", <<>>, "DrainLock")

\* b.mu.Lock() in Add and in Drain
LockStep(p, at, next) ==
    /\ pc[p] = at
    /\ Lock(mu, p).ok
    /\ mu' = Lock(mu, p).mu
    /\ pc' = [pc EXCEPT ![p] = next]
    /\ UNCHANGED <<txvars, libvars, runvars, buf, loc, calls, started>>

AddLock(p) == LockStep(p, "AddLock", "AddRead")

\* b.ts = append(b.ts, t): the read of b.ts ...
AddRead(p) ==
    /\ pc[p] = "AddRead"
    /\ loc' = [loc EXCEPT ![p].ts = buf]
    /\ pc' = [pc EXCEPT ![p] = "AddWrite"]
    /\ UNCHANGED <<txvars, libvars, runvars, buf, mu, calls, started>>

\* ... and the write of the appended slice
AddWrite(p) ==
    /\ pc[p] = "AddWrite"
    /\ buf' = Add(loc[p].ts, loc[p].t)
    /\ pc' = [pc EXCEPT ![p] = "AddUnlock"]
    /\ UNCHANGED <<txvars, libvars, runvars, mu, loc, calls, started>>

\* the return of a call: what it was, what it was given and what it returns
\* or, for Reset, drops
Returned(p, out) ==
    [p |-> p, op |-> loc[p].op, t |-> loc[p].t, out |-> out,
     at |-> loc[p].at, alone |-> loc[p].alone]

\* the deferred b.mu.Unlock() of Add: the mutex is free, the call has yet to
\* return
AddUnlock(p) ==
    /\ pc[p] = "AddUnlock"
    /\ mu' = Unlock(mu)
    /\ pc' = [pc EXCEPT ![p] = "AddReturn"]
    /\ UNCHANGED <<txvars, libvars, runvars, buf, loc, calls, started>>

\* the return of Add to its caller
AddReturn(p) ==
    /\ pc[p] = "AddReturn"
    /\ calls' = Append(calls, Returned(p, <<>>))
    /\ pc' = [pc EXCEPT ![p] = "idle"]
    /\ loc' = [loc EXCEPT ![p] = NoBufferCall]
    /\ UNCHANGED <<txvars, libvars, runvars, buf, mu, started>>

DrainLock(p) == LockStep(p, "DrainLock", "DrainRead")

\* ts := b.ts
DrainRead(p) ==
    /\ pc[p] = "DrainRead"
    /\ loc' = [loc EXCEPT ![p].ts = Drain(buf).out]
    /\ pc' = [pc EXCEPT ![p] = "DrainNil"]
    /\ UNCHANGED <<txvars, libvars, runvars, buf, mu, calls, started>>

\* b.ts = nil
DrainNil(p) ==
    /\ pc[p] = "DrainNil"
    /\ buf' = Drain(buf).ts
    /\ pc' = [pc EXCEPT ![p] = "DrainUnlock"]
    /\ UNCHANGED <<txvars, libvars, runvars, mu, loc, calls, started>>

\* b.mu.Unlock() of Drain: the mutex is free, the call has yet to return
DrainUnlock(p) ==
    /\ pc[p] = "DrainUnlock"
    /\ mu' = Unlock(mu)
    /\ pc' = [pc EXCEPT ![p] = "DrainReturn"]
    /\ UNCHANGED <<txvars, libvars, runvars, buf, loc, calls, started>>

\* return ts; Reset returns after the Drain it called, with nothing
DrainReturn(p) ==
    /\ pc[p] = "DrainReturn"
    /\ calls' = Append(calls, Returned(p, loc[p].ts))
    /\ pc' = [pc EXCEPT ![p] = "idle"]
    /\ loc' = [loc EXCEPT ![p] = NoBufferCall]
    /\ UNCHANGED <<txvars, libvars, runvars, buf, mu, started>>

BufferNext ==
    \/ \E p \in Procs : CallAdd(p)
    \/ \E p \in Procs : CallDrain(p)
    \/ \E p \in Procs : CallReset(p)
    \/ \E p \in Procs : AddLock(p)
    \/ \E p \in Procs : AddRead(p)
    \/ \E p \in Procs : AddWrite(p)
    \/ \E p \in Procs : AddUnlock(p)
    \/ \E p \in Procs : AddReturn(p)
    \/ \E p \in Procs : DrainLock(p)
    \/ \E p \in Procs : DrainRead(p)
    \/ \E p \in Procs : DrainNil(p)
    \/ \E p \in Procs : DrainUnlock(p)
    \/ \E p \in Procs : DrainReturn(p)

\* a Buffer of a handler without options, shared by the goroutines
BufferSpecInit == Init /\ cfg = [SkipIfNotExists |-> FALSE, Redact |-> NoRedact]

BufferSpec == BufferSpecInit /\ [][BufferNext]_vars

(***************************************************************************)
(* The library functions called directly, one call per behaviour.          *)
(***************************************************************************)

\* a second column key
Note == <<"n">>
Keys == {ID, Note}

\* the Redact maps a Config can hold over these keys
RedactMaps == UNION {[D -> {NilFunc, MaskFunc}] : D \in SUBSET Keys}

\* the row images over these keys, and the nil map
RowMaps == {NilMap} \cup {MapOf(kv) : kv \in UNION {[D -> {"a", "b"}] : D \in SUBSET Keys}}

\* a handler configured with redact redacts the image m
ApplyRedact ==
    /\ app = NoApp
    /\ \E redact \in RedactMaps, m \in RowMaps :
          app' = [fn |-> "applyRedact", in |-> [redact |-> redact, m |-> m],
                  out |-> applyRedactWith(redact, m)]
    /\ UNCHANGED <<txvars, buf, bufvars, runvars>>

\* the identifier texts: quotes, dots, whitespace and a letter in any order
IdentChars == {"a", "\"", ".", " "}
IdentTexts == UNION {[1..n -> IdentChars] : n \in 0..MaxText}

\* the parts given to QuoteQualified: any text, single quotes included
PartChars == {"a", "\"", ".", "'"}
PartTexts == UNION {[1..n -> PartChars] : n \in 0..MaxPartLen}
PartLists == UNION {[1..n -> PartTexts] : n \in 0..MaxParts}

\* the suffixes given to HistoryParts
Suffixes == {<<>>, <<"h">>, HistorySuffix}

CallSplitQualified ==
    /\ app = NoApp
    /\ \E ident \in IdentTexts :
          app' = [fn |-> "SplitQualified", in |-> ident, out |-> SplitQualified(ident)]
    /\ UNCHANGED <<txvars, buf, bufvars, runvars>>

\* split, quote, split again
CallRoundTrip ==
    /\ app = NoApp
    /\ \E ident \in IdentTexts :
          LET parts == SplitQualified(ident)
              quoted == QuoteQualified(parts)
          IN  app' = [fn |-> "RoundTrip", in |-> ident, parts |-> parts,
                      quoted |-> quoted, out |-> SplitQualified(quoted)]
    /\ UNCHANGED <<txvars, buf, bufvars, runvars>>

CallHistoryParts ==
    /\ app = NoApp
    /\ \E base \in IdentTexts, suffix \in Suffixes :
          app' = [fn |-> "HistoryParts", in |-> [base |-> base, suffix |-> suffix],
                  split |-> SplitQualified(base), out |-> HistoryParts(base, suffix)]
    /\ UNCHANGED <<txvars, buf, bufvars, runvars>>

CallQuoteQualified ==
    /\ app = NoApp
    /\ \E parts \in PartLists :
          app' = [fn |-> "QuoteQualified", in |-> parts, out |-> QuoteQualified(parts)]
    /\ UNCHANGED <<txvars, buf, bufvars, runvars>>

CallQualifiedRegclassLiteral ==
    /\ app = NoApp
    /\ \E parts \in PartLists :
          app' = [fn |-> "QualifiedRegclassLiteral", in |-> parts,
                  quoted |-> QuoteQualified(parts),
                  out |-> QualifiedRegclassLiteral(parts)]
    /\ UNCHANGED <<txvars, buf, bufvars, runvars>>

\* the statements given to ParseDML are put together from a prologue, the
\* keywords, a target, an alias and the rest of the statement
Prologues ==
    { <<>>,
      <<"w", "i", "t", "h", " ", "c", " ", "a", "s", " ", "(", "x", ")", " ">>,
      <<"W", "I", "T", "H", " ", "c", " ", "A", "S", " ", "(", "x", ")",
        ",", " ", "d", " ", "A", "S", " ", "(", "y", ")", " ">> }

Targets ==
    { <<"t">>,
      <<"s", ".", "t">>,
      <<"\"", "S", "\"", ".", "\"", "T", "\"">>,
      <<"\"", "a", " ", "b", "\"">> }

Aliases ==
    { <<>>,
      <<" ", "a">>,
      <<" ", "a", "s", " ", "a">>,
      <<" ", "A", "S", " ", "a">>,
      <<NBSP, "a">>,
      <<IdeographicSpace, "a">> }

\* the rest of a statement, and whether the word returning stands in it
UpdateTails ==
    { [text |-> <<" ", "s", "e", "t", " ", "x", " ", "=", " ", "1">>,
       returning |-> FALSE],
      [text |-> <<" ", "S", "E", "T", " ", "x", " ", "=", " ", "1", " ",
                 "R", "E", "T", "U", "R", "N", "I", "N", "G", " ", "*">>,
       returning |-> TRUE],
      [text |-> <<" ", "s", "e", "t", " ", "n", " ", "=", " ", "'", "r",
                 "e", "t", "u", "r", "n", "i", "n", "g", " ", "s", "o",
                 "o", "n", "'">>,
       returning |-> TRUE],
      [text |-> <<" ", "s", "e", "t", " ", "r", "e", "t", "u", "r", "n",
                 "i", "n", "g", "_", "a", "t", " ", "=", " ", "1">>,
       returning |-> FALSE],
      [text |-> <<" ", "s", "e", "t", " ", "n", " ", "=", " ", "'", ")",
                 " ", "i", "n", "s", "e", "r", "t", " ", "i", "n", "t",
                 "o", " ", "x", "'">>,
       returning |-> FALSE] }

DeleteTails ==
    { [text |-> <<>>,
       returning |-> FALSE],
      [text |-> <<" ", "w", "h", "e", "r", "e", " ", "x", " ", "=", " ", "1">>,
       returning |-> FALSE],
      [text |-> <<" ", "W", "H", "E", "R", "E", " ", "x", " ", "=", " ",
                 "1", " ", "r", "e", "t", "u", "r", "n", "i", "n", "g",
                 " ", "i", "d">>,
       returning |-> TRUE],
      [text |-> <<",", " ", "u", " ", "w", "h", "e", "r", "e", " ", "x",
                 " ", "=", " ", "1">>,
       returning |-> FALSE] }

InsertTails ==
    { [text |-> <<" ", "(", "i", "d", ")", " ", "v", "a", "l", "u", "e",
                 "s", " ", "(", "1", ")">>,
       returning |-> FALSE],
      [text |-> <<"(", "i", "d", ")", " ", "V", "A", "L", "U", "E", "S",
                 " ", "(", "1", ")", " ", "R", "e", "t", "u", "r", "n",
                 "i", "n", "g", " ", "*">>,
       returning |-> TRUE] }

\* the operations with the spellings of their keywords
Keywords ==
    { [op |-> "UPDATE", kw |-> <<"u", "p", "d", "a", "t", "e", " ">>],
      [op |-> "UPDATE", kw |-> <<"U", "P", "D", "A", "T", "E", " ", " ">>],
      [op |-> "UPDATE", kw |-> <<"u", "p", "d", "a", "t", "e", "\r", "\n">>],
      [op |-> "DELETE", kw |-> <<"d", "e", "l", "e", "t", "e", " ", "f", "r", "o", "m", " ">>],
      [op |-> "DELETE", kw |-> <<"D", "e", "l", "e", "t", "e", "\n", "F", "r", "o", "m", " ">>],
      [op |-> "INSERT", kw |-> <<"i", "n", "s", "e", "r", "t", " ", "i", "n", "t", "o", " ">>],
      [op |-> "INSERT", kw |-> <<"I", "N", "S", "E", "R", "T", " ", "I", "N", "T", "O", " ">>],
      [op |-> "INSERT", kw |-> <<"i", "n", LongS, "e", "r", "t", "\f", "i", "n", "t", "o", " ">>] }

TailsOf(op) ==
    CASE op = "UPDATE" -> UpdateTails
      [] op = "DELETE" -> DeleteTails
      [] op = "INSERT" -> InsertTails

\* statements that are no INSERT, UPDATE or DELETE, or lack a keyword of theirs
OtherBodies ==
    { <<"s", "e", "l", "e", "c", "t", " ", "1">>,
      <<"S", "E", "L", "E", "C", "T", " ", "'", ")", " ", "i", "n", "s",
        "e", "r", "t", " ", "i", "n", "t", "o", " ", "t", "'">>,
      <<"i", "n", "s", "e", "r", "t", " ", "t", " ", "v", "a", "l", "u",
        "e", "s", " ", "(", "1", ")">>,
      <<"u", "p", "d", "a", "t", "e", " ", "t", " ", "x", " ", "=", " ", "1">>,
      <<"d", "e", "l", "e", "t", "e", " ", "t">> }

\* ParseDML is given a statement with its prologue, and the statement alone
CallParseDML ==
    /\ app = NoApp
    /\ \E pro \in Prologues :
          \/ \E k \in Keywords, target \in Targets, alias \in Aliases :
                \E tail \in TailsOf(k.op) :
                   LET body == k.kw \o target \o
                               (IF k.op = "INSERT" THEN <<>> ELSE alias) \o tail.text
                   IN  /\ k.op = "INSERT" => alias = <<>>
                       /\ app' = [fn |-> "ParseDML", in |-> pro \o body, pro |-> pro,
                                  op |-> k.op, target |-> target, alias |-> alias,
                                  returning |-> tail.returning,
                                  out |-> ParseDML(pro \o body), alone |-> ParseDML(body)]
          \/ \E body \in OtherBodies :
                app' = [fn |-> "ParseDML", in |-> pro \o body, pro |-> pro,
                        op |-> "", target |-> <<>>, alias |-> <<>>,
                        returning |-> FALSE,
                        out |-> ParseDML(pro \o body), alone |-> ParseDML(body)]
    /\ UNCHANGED <<txvars, buf, bufvars, runvars>>

\* the statements given to AppendReturningAll: text, semicolons and whitespace
StatementChars == {"a", ";", " "}
StatementTexts == UNION {[1..n -> StatementChars] : n \in 0..MaxText}

CallAppendReturningAll ==
    /\ app = NoApp
    /\ \E q \in StatementTexts :
          app' = [fn |-> "AppendReturningAll", in |-> q, out |-> AppendReturningAll(q)]
    /\ UNCHANGED <<txvars, buf, bufvars, runvars>>

\* the tables of the entries pickID is asked about, plain and schema-qualified,
\* with the key made of the singular of their base name
Items == <<"i", "t", "e", "m", "s">>
Buses == <<"b", "u", "s", "e", "s">>
PickTables == {Items, <<"s", ".">> \o Items, <<"\"", "S", "\"", ".", "\"">> \o Items \o <<"\"">>,
               Buses}
ItemID == <<"i", "t", "e", "m", "_", "i", "d">>
BusID == <<"b", "u", "s", "_", "i", "d">>
PickKeys == {ID, ItemID, BusID, Note}

\* the images of an entry: absent, or a row with some of the keys, whose
\* values tell the image and the key they come from
ImagesOf(side) ==
    {NilMap} \cup {MapOf([k \in D |-> <<side, k>>]) : D \in SUBSET PickKeys}

CallPickID ==
    /\ app = NoApp
    /\ \E table \in PickTables, before \in ImagesOf("before"), after \in ImagesOf("after") :
          app' = [fn |-> "pickID",
                  in |-> [table |-> table, before |-> before, after |-> after],
                  out |-> pickID(table, before, after)]
    /\ UNCHANGED <<txvars, buf, bufvars, runvars>>

\* scanAll or scanOne is given a cursor: Columns fails or not, the rows, and
\* the place where a Scan or the iteration fails; scanAll fails wherever
\* that is
CallScan ==
    /\ app = NoApp
    /\ \E columnsErr \in BOOLEAN, rows \in SeqsUpTo(Images, MaxRows) :
          \E failAt \in 0..(Len(rows) + 1) :
             \/ app' = [fn |-> "scanAll",
                        in |-> [columnsErr |-> columnsErr, rows |-> rows, failAt |-> failAt],
                        out |-> deferred(scanAllReturns(columnsErr, rows, failAt # 0))]
             \/ app' = [fn |-> "scanOne",
                        in |-> [columnsErr |-> columnsErr, rows |-> rows, failAt |-> failAt],
                        out |-> deferred(scanOneReturns(columnsErr, rows, failAt))]
    /\ UNCHANGED <<txvars, buf, bufvars, runvars>>

\* the ends of a statement: nothing, a semicolon directly after the last
\* token, a semicolon after a space
StatementEnds == { <<>>, <<";">>, <<" ", ";">> }

\* a statement is parsed, rewritten by AppendReturningAll, and the rewritten
\* statement is parsed again
rewriteParsed(q, rewritten) ==
    [fn |-> "Rewrite", in |-> q, first |-> ParseDML(q),
     rewritten |-> rewritten, second |-> ParseDML(rewritten.q)]

CallRewrite ==
    /\ app = NoApp
    /\ \E k \in Keywords, target \in Targets, alias \in Aliases, end \in StatementEnds :
          \E tail \in TailsOf(k.op) :
             LET q == k.kw \o target \o
                      (IF k.op = "INSERT" THEN <<>> ELSE alias) \o tail.text \o end
             IN  /\ k.op = "INSERT" => alias = <<>>
                 /\ app' = rewriteParsed(q, AppendReturningAll(q))
    /\ UNCHANGED <<txvars, buf, bufvars, runvars>>


\* the fixed text of the history statements of flush
InsertInto ==
    << "I", "N", "S", "E", "R", "T", " ", "I", "N", "T", "O", " " >>
HistoryColumns ==
    << " ", "(", "i", "d", ",", " ", "o", "p", "e", "r", "a", "t",
       "i", "o", "n", ",", " ", "o", "p", "e", "r", "a", "t", "e",
       "d", "_", "a", "t", ",", " ", "o", "p", "e", "r", "a", "t",
       "e", "d", "_", "b", "y", ",", " ", "t", "r", "a", "c", "e",
       "_", "i", "d", ",", " ", "r", "e", "a", "s", "o", "n", ",",
       " ", "b", "e", "f", "o", "r", "e", ",", " ", "a", "f", "t",
       "e", "r", ")" >>
HistoryValues ==
    << "V", "A", "L", "U", "E", "S", " ", "(", "$", "1", ",", " ",
       "$", "2", ",", " ", "n", "o", "w", "(", ")", ",", " ", "$",
       "3", ",", " ", "$", "4", ",", " ", "$", "5", ",", " ", "$",
       "6", ",", " ", "$", "7", ")" >>
GuardOpen ==
    << "\n", "D", "O", " ", "$", "$", "\n", "B", "E", "G", "I", "N",
       "\n", " ", " ", " ", " ", "I", "F", " ", "t", "o", "_", "r",
       "e", "g", "c", "l", "a", "s", "s", "(" >>
GuardThen ==
    << ")", " ", "I", "S", " ", "N", "O", "T", " ", "N", "U", "L",
       "L", " ", "T", "H", "E", "N", "\n", " ", " ", " ", " ", " ",
       " ", " ", " " >>
GuardIndent ==
    << " ", " ", " ", " ", " ", " ", " ", " " >>
GuardClose ==
    << ";", "\n", " ", " ", " ", " ", "E", "N", "D", " ", "I", "F",
       ";", "\n", "E", "N", "D", " ", "$", "$", ";", "\n" >>

\* the plain INSERT of flush; at and len tell where the history identifier
\* stands in it
plainStmt(historyIdent) ==
    [text |-> <<"\n">> \o InsertInto \o historyIdent \o HistoryColumns
              \o <<"\n">> \o HistoryValues \o <<"\n">>,
     identAt |-> 1 + Len(InsertInto) + 1, identLen |-> Len(historyIdent),
     literalAt |-> 0, literalLen |-> 0, bodyAt |-> 0, bodyEnd |-> 0]

\* the statement with SkipIfNotExists: the INSERT inside a DO block that asks
\* to_regclass for the history table; the body of the block starts after the
\* first $$ and ends before the $$ of GuardClose
guardedStmt(regclass, historyIdent) ==
    [text |-> GuardOpen \o regclass \o GuardThen \o InsertInto \o historyIdent
              \o HistoryColumns \o <<"\n">> \o GuardIndent \o HistoryValues
              \o GuardClose,
     identAt |-> Len(GuardOpen) + Len(regclass) + Len(GuardThen) + Len(InsertInto) + 1,
     identLen |-> Len(historyIdent),
     literalAt |-> Len(GuardOpen) + 1, literalLen |-> Len(regclass),
     bodyAt |-> 7,
     bodyEnd |-> Len(GuardOpen) + Len(regclass) + Len(GuardThen) + Len(InsertInto)
                 + Len(historyIdent) + Len(HistoryColumns) + 1 + Len(GuardIndent)
                 + Len(HistoryValues) + Len(GuardClose) - 3]

\* the statement flush builds for an entry of a table
historyStmtOf(skipIfNotExists, historyParts) ==
    IF skipIfNotExists
    THEN guardedStmt(QualifiedRegclassLiteral(historyParts), QuoteQualified(historyParts))
    ELSE plainStmt(QuoteQualified(historyParts))

\* the table texts of entries: letters, both quotes, the dot and the dollar
TableChars == {"a", "\"", "'", ".", "$"}
TableTexts == UNION {[1..n -> TableChars] : n \in 1..MaxTableLen}

CallHistoryStmt ==
    /\ app = NoApp
    /\ \E table \in TableTexts, skipIfNotExists \in BOOLEAN :
          app' = [fn |-> "historyStmt", in |-> table, skip |-> skipIfNotExists,
                  out |-> historyStmtOf(skipIfNotExists,
                                        HistoryParts(table, HistorySuffix))]
    /\ UNCHANGED <<txvars, buf, bufvars, runvars>>


LibNext ==
    \/ ApplyRedact
    \/ CallSplitQualified
    \/ CallRoundTrip
    \/ CallHistoryParts
    \/ CallQuoteQualified
    \/ CallQualifiedRegclassLiteral
    \/ CallParseDML
    \/ CallAppendReturningAll
    \/ CallPickID
    \/ CallScan
    \/ CallRewrite
    \/ CallHistoryStmt

LibSpecInit == Init /\ cfg = [SkipIfNotExists |-> FALSE, Redact |-> NoRedact]
LibSpec == LibSpecInit /\ [][LibNext]_vars

(***************************************************************************)
(* Properties of the wrapped transaction.                                  *)
(***************************************************************************)
\* the positions in hist of the history statements issued for entry eid
HistOf(eid) == {j \in 1..Len(hist) : hist[j].eid = eid}
\* the positions in hist of the statements the last call issued
ThisCall == (last.before + 1)..Len(hist)

\* C1: whenever the underlying transaction has been committed, every entry
\* captured by a successful ExecContext has had its history INSERT executed
\* without error (written, or skipped by the missing-table guard).
C1_CommittedImpliesAudited ==
    utx = "committed" =>
        \A i \in 1..Len(captured) :
            \E j \in HistOf(captured[i].e.eid) : hist[j].err = "nil"

\* the JSON parameter sent carries the captured row image: the same columns,
\* and the captured value of every column without a redaction function
SentImage(json, img) ==
    /\ json.json = "object"
    /\ DOMAIN json.obj = DOMAIN img.kv
    /\ \A k \in DOMAIN img.kv : k \notin DOMAIN cfg.Redact => json.obj[k] = img.kv[k]

\* C2: in a committed transaction every row returned by a RETURNING statement
\* has exactly one history INSERT, with the row image as before and a JSON null
\* after for DELETE, and the row image as after and a JSON null before for
\* INSERT and UPDATE.
C2_OneInsertPerReturnedRow ==
    utx = "committed" =>
        \A i \in 1..Len(captured) :
            ~captured[i].img.isNil =>
                /\ Cardinality(HistOf(captured[i].e.eid)) = 1
                /\ \A j \in HistOf(captured[i].e.eid) :
                       IF captured[i].e.op = "DELETE"
                       THEN SentImage(hist[j].before, captured[i].img)
                            /\ hist[j].after.json = "null"
                       ELSE SentImage(hist[j].after, captured[i].img)
                            /\ hist[j].before.json = "null"

\* C3: once Rollback has been called and Commit never, no history INSERT has
\* been issued, flush was never entered, the buffer is empty and the underlying
\* transaction is rolled back.
C3_RollbackWithoutCommit ==
    (nRollback > 0 /\ nCommit = 0) =>
        /\ hist = <<>>
        /\ flushes = 0
        /\ buf = <<>>
        /\ utx = "rolledback"

C3_Witness == nRollback > 0 /\ nCommit = 0 /\ Len(captured) >= 2

\* C4: no capture entry is the subject of more than one history INSERT.
C4_AtMostOnce ==
    \A i, j \in 1..Len(hist) : hist[i].eid = hist[j].eid => i = j

C4_Witness == nCommit >= 2 /\ Len(hist) >= 2 /\ last.call = "Commit" /\ dropped # {}

\* entry a was captured no later than entry b: by an earlier statement, or by
\* the same statement from a row the cursor returned no later
CapturedBefore(a, b) ==
    \/ captured[a].stmt < captured[b].stmt
    \/ captured[a].stmt = captured[b].stmt /\ captured[a].row <= captured[b].row

\* C5: the history INSERTs are issued in capture order: statement execution
\* order and, within one statement, the order of the rows of the cursor.
C5_OrderPreserved ==
    \A i, j \in 1..Len(hist) : i < j => CapturedBefore(hist[i].eid, hist[j].eid)

C5_Witness ==
    /\ \E i, j \in 1..Len(hist) :
           i < j /\ captured[hist[i].eid].stmt = captured[hist[j].eid].stmt
    /\ \E i, j \in 1..Len(hist) :
           i < j /\ captured[hist[i].eid].stmt < captured[hist[j].eid].stmt

\* C6: a Commit that invoked the underlying commit had a flush without error
\* that executed the history INSERT of every drained entry; a Commit whose
\* flush failed returns that error and has not invoked the underlying commit.
C6_CommitAfterFlush ==
    last.call = "Commit" =>
        /\ last.invoked =>
               /\ last.flushErr = "nil"
               /\ \A eid \in last.drained :
                      \E j \in ThisCall : hist[j].eid = eid /\ hist[j].err = "nil"
        /\ last.flushErr # "nil" =>
               /\ ~last.invoked
               /\ last.err = last.flushErr
               /\ utx # "committed"

C6_Witness ==
    last.call = "Commit" /\ last.invoked /\ utx = "committed" /\ Cardinality(last.drained) >= 2

\* C7: when the history INSERT of the k-th drained entry fails, the entries
\* after it are never inserted, the error is returned, and the buffer is left
\* empty.
C7_FailedFlushDropsRest ==
    /\ \A j \in 1..Len(hist) : hist[j].eid \notin dropped
    /\ (last.call = "Commit" /\ last.flushErr # "nil") =>
           /\ buf = <<>>
           /\ last.err # "nil"
           /\ \A j \in ThisCall : j < Len(hist) => hist[j].err = "nil"

C7_Witness ==
    /\ dropped # {}
    /\ nCommit >= 2
    /\ last.call = "Commit" /\ last.drained = {} /\ last.pre = "open"

\* C8: with SkipIfNotExists, a Commit succeeds whether or not the history
\* tables exist: every drained entry has its statement executed, and a row is
\* written exactly for the entries whose history table exists.  The Commits
\* looked at are those on an open transaction, with images that can be
\* encoded and with no failure the database raises for reasons of its own,
\* so that a Commit that fails here fails for the guarded statement alone.
C8_SkipIfNotExists ==
    ( /\ cfg.SkipIfNotExists
      /\ last.call = "Commit" /\ last.pre = "open" /\ last.envOk
      /\ last.flushErr \notin {"marshal before", "marshal after"} ) =>
        /\ last.err = "nil"
        /\ last.invoked
        /\ utx = "committed"
        /\ \A eid \in last.drained :
               \E j \in ThisCall :
                   /\ hist[j].eid = eid
                   /\ hist[j].err = "nil"
                   /\ hist[j].row <=> (hist[j].ident \in DBTables)

\* C9: per transaction flush is entered at most once, whatever sequence of
\* Commit and Rollback calls the caller makes.
C9_FlushOnce == flushes <= 1

\* C10: after Rollback returns the buffer is empty, and no entry Rollback
\* discarded is ever the subject of a history INSERT.
C10_RollbackDiscards ==
    /\ last.call = "Rollback" => buf = <<>>
    /\ \A j \in 1..Len(hist) : hist[j].eid \notin discarded

C10_Witness == discarded # {} /\ last.call = "Commit" /\ nCommit >= 2

(***************************************************************************)
(* Properties of ExecContext.                                              *)
(***************************************************************************)
\* the step is an ExecContext call on a statement of the given kind
ExecOf(recognised, returning) ==
    /\ nExec' = nExec + 1
    /\ last'.s.ok = recognised
    /\ last'.s.HasReturning = returning

\* C14: for a statement ParseDML does not recognise, ExecContext calls the
\* underlying ExecContext with the same context, text and arguments, returns
\* its result and error unchanged, and leaves the buffer unchanged.
C14_PassThrough ==
    [][ ExecOf(FALSE, FALSE) =>
          /\ last'.fwd = [method |-> "ExecContext", ctx |-> last'.s.ctx,
                          q |-> last'.s.q, args |-> last'.s.args]
          /\ last'.res = last'.under.res
          /\ last'.err = last'.under.err
          /\ buf' = buf
          /\ captured' = captured ]_vars

\* a pass-through that succeeded, over a buffer holding entries
C14_Witness ==
    /\ last.call = "ExecContext" /\ ~last.s.ok
    /\ last.err = "nil" /\ last.res.from = "driver"
    /\ buf # <<>>

\* C15: a recognised statement without RETURNING is executed by the
\* underlying ExecContext and its result returned; on success exactly one
\* entry is appended, with the table, operation, SQL text, arguments and
\* metadata and no row image; on failure the error is returned and the
\* buffer is unchanged.
C15_NoReturningMinimalEntry ==
    [][ ExecOf(TRUE, FALSE) =>
          /\ last'.fwd = [method |-> "ExecContext", ctx |-> last'.s.ctx,
                          q |-> last'.s.q, args |-> last'.s.args]
          /\ last'.res = last'.under.res
          /\ last'.err = last'.under.err
          /\ IF last'.under.err = "nil"
             THEN /\ Len(buf') = Len(buf) + 1
                  /\ SubSeq(buf', 1, Len(buf)) = buf
                  /\ LET e == buf'[Len(buf')] IN
                      /\ e.table = last'.s.Table /\ e.op = last'.s.Op
                      /\ e.sql = last'.s.q /\ e.args = last'.s.args
                      /\ e.meta = last'.s.attached
                      /\ e.before.isNil /\ e.after.isNil
             ELSE buf' = buf /\ captured' = captured ]_vars

C15_Witness ==
    /\ last.call = "ExecContext" /\ last.s.ok /\ ~last.s.HasReturning
    /\ last.err = "nil" /\ last.added = 1
    /\ Len(buf) = 2 /\ buf[2].sql = last.s.q

\* the image an entry carries
ImageOf(e) == IF e.op = "DELETE" THEN e.before ELSE e.after

\* C16: a recognised statement with RETURNING that returns n >= 1 rows
\* appends exactly n entries, the i-th carrying the i-th row, and returns a
\* result whose RowsAffected is n.
C16_OneEntryPerRow ==
    [][ ( /\ ExecOf(TRUE, TRUE)
          /\ last'.under.err = "nil" /\ ~last'.scanFails /\ last'.returned >= 1 ) =>
          /\ last'.err = "nil"
          /\ Len(buf') = Len(buf) + last'.returned
          /\ SubSeq(buf', 1, Len(buf)) = buf
          /\ \A i \in 1..last'.returned :
                 ImageOf(buf'[Len(buf) + i]) = captured'[Len(captured) + i].img
          /\ RowsAffected(last'.res) = [v |-> last'.returned, err |-> "nil"] ]_vars

C16_Witness ==
    /\ last.call = "ExecContext" /\ last.s.ok /\ last.s.HasReturning
    /\ last.returned = 2 /\ last.added = 2
    /\ Len(buf) = 3
    /\ buf[2].after # buf[3].after

\* C17: when the underlying query fails, a scan or the iteration fails, or the
\* cursor yields no row, ExecContext returns an error and no result and
\* appends nothing, not even the rows scanned before the failure.
C17_MaterializationFailure ==
    [][ ( /\ ExecOf(TRUE, TRUE)
          /\ (last'.under.err # "nil" \/ last'.scanFails \/ last'.returned = 0) ) =>
          /\ last'.err # "nil"
          /\ last'.res = NilResult
          /\ buf' = buf
          /\ captured' = captured ]_vars

\* a scan failed after a row had been scanned, over a buffer holding entries
C17_Witness ==
    /\ last.call = "ExecContext" /\ last.s.ok /\ last.s.HasReturning
    /\ last.scanFails /\ last.returned >= 1
    /\ last.err = "scan"
    /\ buf # <<>>

\* C18: the result ExecContext returns for a captured RETURNING statement
\* answers LastInsertId with an error and RowsAffected without, for every
\* row count.
C18_NoGeneratedKey ==
    /\ \A n \in 0..(MaxRows + 1) :
           /\ LastInsertId(newAffectedRows(n)).err # "nil"
           /\ RowsAffected(newAffectedRows(n)) = [v |-> n, err |-> "nil"]
    /\ (last.call = "ExecContext" /\ last.res.from = "affectedResult") =>
           /\ LastInsertId(last.res).err # "nil"
           /\ RowsAffected(last.res).err = "nil"

C18_Witness ==
    /\ last.call = "ExecContext" /\ last.res.from = "affectedResult"
    /\ last.res.n = 2

\* C19: of every entry ever buffered at most one of before and after is
\* populated, a DELETE entry never has after and an INSERT or UPDATE entry
\* never has before, and an entry carries the SQL text and arguments exactly
\* when it carries no row image.
C19_EntryShape ==
    \A i \in 1..Len(captured) :
        LET e == captured[i].e IN
        /\ e.before.isNil \/ e.after.isNil
        /\ e.op = "DELETE" => e.after.isNil
        /\ e.op \in {"INSERT", "UPDATE"} => e.before.isNil
        /\ (e.sql # "") <=> (e.before.isNil /\ e.after.isNil)
        /\ (e.args # <<>>) => (e.before.isNil /\ e.after.isNil)

C19_Witness ==
    /\ \E i \in 1..Len(captured) :
           captured[i].e.op = "DELETE" /\ ~captured[i].e.before.isNil
    /\ \E i \in 1..Len(captured) :
           captured[i].e.sql # "" /\ captured[i].e.before.isNil /\ captured[i].e.after.isNil

\* the metadata parameters of a history statement
MetaSent(h) == [operator |-> h.operator, traceID |-> h.traceID, reason |-> h.reason]

\* C20: every entry carries the operator, trace id and reason attached to the
\* context of the ExecContext call that created it (empty strings where none
\* was attached), the entries of one call carry the same, and flush sends
\* exactly those values, whatever the context given to BeginTx carries.
C20_MetadataPerCall ==
    /\ \A i \in 1..Len(captured) : captured[i].e.meta = captured[i].attached
    /\ \A i, j \in 1..Len(captured) :
           captured[i].stmt = captured[j].stmt => captured[i].e.meta = captured[j].e.meta
    /\ \A j \in 1..Len(hist) : MetaSent(hist[j]) = captured[hist[j].eid].attached

\* two rows of one statement and a row of another were sent with different
\* metadata, none with that of the context given to BeginTx
C20_Witness ==
    /\ \E i, j \in 1..Len(hist) :
           /\ i # j
           /\ captured[hist[i].eid].stmt = captured[hist[j].eid].stmt
           /\ MetaSent(hist[i]) = DemoMeta
    /\ \E i, j \in 1..Len(hist) : MetaSent(hist[i]) # MetaSent(hist[j])
    /\ \A j \in 1..Len(hist) : MetaSent(hist[j]) # extractMeta(hist[j].ctx)

(***************************************************************************)
(* Properties of the Buffer.                                               *)
(***************************************************************************)
\* the returned calls that emptied the buffer
Emptyings == {i \in 1..Len(calls) : calls[i].op \in {"Drain", "Reset"}}

\* the last call before the j-th that emptied the buffer (0: none)
PrevEmptying(j) ==
    IF \E i \in Emptyings : i < j
    THEN CHOOSE i \in Emptyings : i < j /\ \A h \in Emptyings : h < j => h <= i
    ELSE 0

\* the entries of the calls between the previous emptying and the j-th call
AddedSince(j) ==
    [k \in 1..(j - 1 - PrevEmptying(j)) |-> calls[PrevEmptying(j) + k].t]

\* only one goroutine has ever called the Buffer
SingleCaller == \E p \in Procs : \A q \in Procs \ {p} : started[q] = 0

\* C11: with a single caller, every Drain returns exactly the entries added
\* since the previous Drain or Reset, in the order they were added (so a Drain
\* right after a Drain or a Reset returns the empty sequence), and a Drain or
\* Reset that returned has left the buffer empty.
C11_DrainReturnsAddedSince ==
    SingleCaller =>
        /\ \A j \in 1..Len(calls) :
               calls[j].op = "Drain" => calls[j].out = AddedSince(j)
        /\ (calls # <<>> /\ Len(calls) \in Emptyings /\ \A q \in Procs : pc[q] = "idle")
               => buf = <<>>

\* add, add, drain, drain: the first Drain returned two entries, the second none
C11_Witness ==
    /\ SingleCaller
    /\ Len(calls) = 4
    /\ calls[3].op = "Drain" /\ Len(calls[3].out) = 2
    /\ calls[4].op = "Drain" /\ calls[4].out = <<>>

\* the last returned call is the one Drain, called when every Add had
\* returned, and nothing else has been called since
OneDrainAfterAdds ==
    /\ calls # <<>>
    /\ calls[Len(calls)].op = "Drain"
    /\ calls[Len(calls)].alone
    /\ calls[Len(calls)].at = Len(calls) - 1
    /\ \A i \in 1..(Len(calls) - 1) : calls[i].op = "Add"
    /\ \A q \in Procs : pc[q] = "idle"

\* C12: after any interleaving of concurrent Adds, one Drain called when all
\* Adds have returned yields every added entry exactly once and each caller's
\* entries in that caller's order.
C12_ConcurrentAddsAllDrained ==
    OneDrainAfterAdds =>
        LET out == calls[Len(calls)].out IN
        /\ Len(out) = Len(calls) - 1
        /\ \A i \in 1..(Len(calls) - 1) :
               Cardinality({k \in 1..Len(out) : out[k] = calls[i].t}) = 1
        /\ \A i, j \in 1..(Len(calls) - 1) :
               (i < j /\ calls[i].p = calls[j].p) =>
                   \E k, l \in 1..Len(out) :
                       k < l /\ out[k] = calls[i].t /\ out[l] = calls[j].t

\* three Adds of two callers, one of them made while another was under way
C12_Witness ==
    /\ OneDrainAfterAdds
    /\ Len(calls) = 4
    /\ \E i, j \in 1..3 : calls[i].p # calls[j].p
    /\ \E i \in 1..3 : ~calls[i].alone

\* C13: no entry is returned by two Drains, by a Drain and a Reset, or twice
\* by one of them: what the Drain and Reset calls took out of the buffer is
\* pairwise disjoint.
C13_NoEntryDrainedTwice ==
    \A i, j \in Emptyings :
        \A k \in 1..Len(calls[i].out), l \in 1..Len(calls[j].out) :
            calls[i].out[k] = calls[j].out[l] => (i = j /\ k = l)

\* two Drains that each took entries, the second called while another call
\* was under way
C13_Witness ==
    \E i, j \in Emptyings :
        /\ i < j
        /\ calls[i].op = "Drain" /\ calls[j].op = "Drain"
        /\ calls[i].out # <<>> /\ calls[j].out # <<>>
        /\ ~calls[j].alone

(***************************************************************************)
(* Properties of the library functions.                                    *)
(***************************************************************************)

\* C21: the redacted image has the key set of the image; a key registered
\* with a non-nil function holds that function's output for the key and its
\* value, and every other key holds its value unchanged
C21_RedactPerKey ==
    app.fn = "applyRedact" =>
        LET redact == app.in.redact
            m == app.in.m
            out == app.out
        IN  /\ out.isNil = m.isNil
            /\ DOMAIN out.kv = DOMAIN m.kv
            /\ \A k \in DOMAIN m.kv :
                  out.kv[k] = IF k \in DOMAIN redact /\ redact[k] = MaskFunc
                              THEN RedactFn(k, m.kv[k]) ELSE m.kv[k]

\* an image with one key under a function and one under a nil function
C21_Witness ==
    /\ app.fn = "applyRedact"
    /\ app.in.redact = (ID :> MaskFunc @@ Note :> NilFunc)
    /\ DOMAIN app.in.m.kv = Keys
    /\ app.out.kv[ID] = Masked
    /\ app.out.kv[Note] = app.in.m.kv[Note]

(***************************************************************************)
(* Properties of the skip mark.                                            *)
(***************************************************************************)

\* C22: an ExecContext whose context carries the WithSkip mark is passed
\* through to the underlying ExecContext and buffers no entry
C22_SkipBypassesCapture ==
    (last.call = "ExecContext" /\ extractSkip(last.s.ctx)) =>
        /\ last.added = 0
        /\ last.fwd = [method |-> "ExecContext", ctx |-> last.s.ctx,
                       q |-> last.s.q, args |-> last.s.args]
        /\ last.res = last.under.res
        /\ last.err = last.under.err

(***************************************************************************)
(* Properties of internal/ident.                                           *)
(***************************************************************************)

\* C23: for every identifier text, splitting, quoting and splitting again
\* yields the parts of the first split
C23_SplitQuoteSplit ==
    app.fn = "RoundTrip" => app.out = app.parts

\* a text whose quote is never closed and whose part holds a quote
C23_Witness ==
    /\ app.fn = "RoundTrip"
    /\ app.in = <<"\"", "a", "\"", "\"">>
    /\ app.parts = <<<<"a", "\"">>>>
    /\ app.quoted = <<"\"", "a", "\"", "\"", "\"">>
    /\ app.out = app.parts

\* the number of quote characters of t before position i
QuotesBefore(t, i) == Cardinality({j \in 1..(i - 1) : t[j] = "\""})
\* the positions of the dots outside quotes
Separators(t) == {i \in 1..Len(t) : t[i] = "." /\ QuotesBefore(t, i) % 2 = 0}
\* the positions whose character reaches a part: every character but the
\* separators and the quotes, and the first quote of a doubled pair in quotes
Literal(t, i) ==
    IF t[i] = "\""
    THEN QuotesBefore(t, i) % 2 = 1 /\ i < Len(t) /\ t[i + 1] = "\""
    ELSE i \notin Separators(t)
\* the characters of t at the positions of idx, in order
Picked(t, idx) ==
    [n \in 1..Cardinality(idx) |->
        t[CHOOSE i \in idx : Cardinality({j \in idx : j <= i}) = n]]
\* the k-th of the positions that bound the parts: 0, the separators, Len + 1
Bound(t, k) ==
    IF k = 0 THEN 0
    ELSE IF k > Cardinality(Separators(t)) THEN Len(t) + 1
    ELSE CHOOSE i \in Separators(t) : Cardinality({j \in Separators(t) : j <= i}) = k

\* C24: the parts lie between the dots outside quotes; a part is the text
\* between two of them without its delimiting quotes, a doubled quote inside
\* quotes being one quote, and trimmed of whitespace at both ends; an empty
\* or all-whitespace text has no parts
C24_SplitScan ==
    app.fn = "SplitQualified" =>
        LET t == TrimSpace(app.in) IN
        IF t = <<>> THEN app.out = <<>>
        ELSE /\ Len(app.out) = Cardinality(Separators(t)) + 1
             /\ \A k \in 1..Len(app.out) :
                   /\ app.out[k] = TrimSpace(Picked(t,
                         {i \in (Bound(t, k - 1) + 1)..(Bound(t, k) - 1) : Literal(t, i)}))
                   /\ app.out[k] # <<>> =>
                         ~IsSpace(Head(app.out[k])) /\ ~IsSpace(app.out[k][Len(app.out[k])])

\* a quoted part with a dot and a doubled quote in it, after an unquoted part
C24_Witness ==
    /\ app.fn = "SplitQualified"
    /\ Len(app.out) = 2
    /\ \E i \in 1..Len(app.in) : app.in[i] = "." /\ i \notin Separators(app.in)
    /\ "\"" \in {app.out[2][j] : j \in 1..Len(app.out[2])}

\* C25: with parts to split, HistoryParts has as many parts, each but the
\* last unchanged and the last followed by the suffix; with none it is the
\* suffix alone, or nothing when the suffix is empty
C25_HistoryPartsSuffix ==
    app.fn = "HistoryParts" =>
        LET n == Len(app.split) IN
        IF n > 0
        THEN /\ Len(app.out) = n
             /\ \A i \in 1..(n - 1) : app.out[i] = app.split[i]
             /\ app.out[n] = app.split[n] \o app.in.suffix
        ELSE app.out = IF app.in.suffix # <<>> THEN <<app.in.suffix>> ELSE <<>>

\* a schema-qualified base with a non-empty suffix
C25_Witness ==
    /\ app.fn = "HistoryParts"
    /\ Len(app.split) = 2 /\ app.split[1] # <<>> /\ app.split[2] # <<>>
    /\ app.in.suffix = HistorySuffix
    /\ Len(app.out) = 2

\* the text p with every c written twice
RECURSIVE Doubled(_, _)
Doubled(p, c) ==
    IF p = <<>> THEN <<>>
    ELSE LET rest == Doubled(SubSeq(p, 1, Len(p) - 1), c)
             x == p[Len(p)]
         IN  IF x = c THEN rest \o <<c, c>> ELSE Append(rest, x)

\* the parts in double quotes with dots between them
RECURSIVE Dotted(_)
Dotted(parts) ==
    IF parts = <<>> THEN <<>>
    ELSE LET n == Len(parts)
             lastp == <<"\"">> \o Doubled(parts[n], "\"") \o <<"\"">>
         IN  IF n = 1 THEN lastp
             ELSE Dotted(SubSeq(parts, 1, n - 1)) \o <<".">> \o lastp

\* C26: QuoteQualified is the parts, each in double quotes with its double
\* quotes doubled, joined by dots; no parts give the empty text
C26_QuoteQualifiedShape ==
    app.fn = "QuoteQualified" =>
        /\ app.out = Dotted(app.in)
        /\ app.in = <<>> => app.out = <<>>

\* two parts, one with a quote in it
C26_Witness ==
    /\ app.fn = "QuoteQualified"
    /\ app.in = <<<<"a">>, <<"a", "\"">>>>
    /\ app.out = <<"\"", "a", "\"", ".", "\"", "a", "\"", "\"", "\"">>

\* every maximal run of single quotes in t has even length
NoLoneQuote(t) ==
    \A a \in 1..Len(t), b \in 1..Len(t) :
        ( /\ a <= b
          /\ \A j \in a..b : t[j] = "'"
          /\ (a = 1 \/ t[a - 1] # "'")
          /\ (b = Len(t) \/ t[b + 1] # "'") ) => (b - a + 1) % 2 = 0

\* C27: QualifiedRegclassLiteral is QuoteQualified of the parts with every
\* single quote doubled, in one pair of single quotes, so that no single
\* quote stands alone between the delimiters; no parts give ''
C27_RegclassLiteralShape ==
    app.fn = "QualifiedRegclassLiteral" =>
        /\ app.out = <<"'">> \o Doubled(app.quoted, "'") \o <<"'">>
        /\ NoLoneQuote(SubSeq(app.out, 2, Len(app.out) - 1))
        /\ app.in = <<>> => app.out = <<"'", "'">>

\* a part with a single quote in it
C27_Witness ==
    /\ app.fn = "QualifiedRegclassLiteral"
    /\ app.in = <<<<"a", "'">>>>
    /\ app.out = <<"'", "\"", "a", "'", "'", "\"", "'">>

(***************************************************************************)
(* Properties of ParseDML.                                                 *)
(***************************************************************************)

\* C28: an UPDATE or DELETE whose target is followed by an alias, bare or
\* after "as", is recognised, with the target alone as Table and the
\* operation in upper case as Op, whatever the case of the keywords
C28_AliasStripped ==
    (app.fn = "ParseDML" /\ app.op \in {"UPDATE", "DELETE"} /\ app.alias # <<>>) =>
        /\ app.out.ok
        /\ app.out.Op = app.op
        /\ app.out.Table = app.target

\* C29: a statement that is no INSERT INTO, UPDATE ... SET or DELETE FROM
\* after its prologue is not recognised, and a statement with a prologue has
\* the Op and Table of the statement alone
C29_PrologueTransparent ==
    app.fn = "ParseDML" =>
        /\ app.op = "" => ~app.out.ok
        /\ app.pro # <<>> =>
              /\ app.out.ok = app.alone.ok
              /\ app.out.Op = app.alone.Op
              /\ app.out.Table = app.alone.Table

\* C30: for a recognised statement HasReturning tells whether the word
\* returning stands in the text, in any case, in a string literal or not
C30_ReturningWord ==
    (app.fn = "ParseDML" /\ app.out.ok) => app.out.HasReturning = app.returning

\* a recognised statement with the word in a string literal only
C30_Witness ==
    /\ app.fn = "ParseDML" /\ app.out.ok
    /\ app.returning /\ app.out.HasReturning
    /\ \E i \in 1..(Len(app.in) - 10) : SubSeq(app.in, i, i + 10) =
          <<"'", "r", "e", "t", "u", "r", "n", "i", "n", "g", " ">>

(***************************************************************************)
(* Properties of AppendReturningAll and pickID.                            *)
(***************************************************************************)

\* the characters AppendReturningAll cuts off the end of a statement
IsTrailer(c) == IsSpace(c) \/ c = ";"
\* the last position of q that holds neither whitespace nor a semicolon, or 0
LastSolid(q) ==
    LET solid == {i \in 1..Len(q) : ~IsTrailer(q[i])} IN
    IF solid = {} THEN 0 ELSE CHOOSE i \in solid : \A j \in solid : j <= i

\* C31: a statement holding more than whitespace and semicolons comes back
\* without the whitespace around it and without its trailing semicolons,
\* followed by a newline and RETURNING *, and by one semicolon exactly when
\* it ended with one; a blank statement comes back unchanged with ok false
C31_AppendReturningAll ==
    app.fn = "AppendReturningAll" =>
        LET q == app.in
            n == LastSolid(q)
        IN  /\ n > 0 =>
                /\ app.out.ok
                /\ app.out.q =
                      SubSeq(TrimLeft(q), 1, Len(TrimLeft(q)) - (Len(q) - n))
                      \o <<"\n", "R", "E", "T", "U", "R", "N", "I", "N", "G", " ", "*">>
                      \o (IF \E i \in (n + 1)..Len(q) : q[i] = ";" THEN <<";">> ELSE <<>>)
            /\ TrimSpace(q) = <<>> => (~app.out.ok /\ app.out.q = q)

\* a statement with whitespace around it and two semicolons at its end
C31_Witness ==
    /\ app.fn = "AppendReturningAll"
    /\ app.in = <<" ", "a", ";", " ", ";">>
    /\ app.out.ok
    /\ app.out.q = <<"a", "\n", "R", "E", "T", "U", "R", "N", "I", "N", "G", " ", "*", ";">>

\* the key <singular of the base table name>_id of an entry's table
SingularKey(table) ==
    LET parts == SplitQualified(table) IN
    Singular(parts[Len(parts)]) \o <<"_", "i", "d">>

\* C32: the id is the value under id in before if the key is there, else
\* under id in after, else under <singular>_id in before, else under that
\* key in after, else nil; the singular is that of the last part of the table
C32_IdPriority ==
    app.fn = "pickID" =>
        LET before == app.in.before
            after == app.in.after
            key == SingularKey(app.in.table)
        IN  app.out =
              CASE HasKey(before, ID) -> before.kv[ID]
                [] ~HasKey(before, ID) /\ HasKey(after, ID) -> after.kv[ID]
                [] ~HasKey(before, ID) /\ ~HasKey(after, ID) /\ HasKey(before, key) ->
                      before.kv[key]
                [] /\ ~HasKey(before, ID) /\ ~HasKey(after, ID)
                   /\ ~HasKey(before, key) /\ HasKey(after, key) -> after.kv[key]
                [] OTHER -> Nil

\* a schema-qualified table whose images hold the singular key only, both
\* of them: the before image gives the id
C32_Witness ==
    /\ app.fn = "pickID"
    /\ app.in.table = <<"s", ".">> \o Items
    /\ HasKey(app.in.before, ItemID) /\ HasKey(app.in.after, ItemID)
    /\ ~HasKey(app.in.before, ID) /\ ~HasKey(app.in.after, ID)
    /\ app.out = <<"before", ItemID>>

(***************************************************************************)
(* Properties of the row materializer.                                     *)
(***************************************************************************)

\* C34: when scanAll or scanOne has returned, with rows or with any error,
\* the cursor has been closed
C34_CursorClosed ==
    app.fn \in {"scanAll", "scanOne"} => app.out.closed

\* the return of sql.ErrNoRows from a cursor without rows
C34_Witness ==
    /\ app.fn = "scanAll"
    /\ app.out.err = "ErrNoRows"
    /\ ~app.in.columnsErr /\ app.in.failAt = 0 /\ app.in.rows = <<>>
    /\ app.out.closed

(***************************************************************************)
(* Properties of the parameters of the history INSERT.                     *)
(***************************************************************************)

\* C33: an image an entry does not have is sent as JSON null, with or
\* without redaction functions: the after of a DELETE, the before of an
\* INSERT or UPDATE, both images of an entry captured without RETURNING
C33_AbsentImageIsNull ==
    \A j \in 1..Len(hist) :
        /\ hist[j].op = "DELETE" => hist[j].after.json = "null"
        /\ hist[j].op \in {"INSERT", "UPDATE"} => hist[j].before.json = "null"
        /\ captured[hist[j].eid].img.isNil =>
              hist[j].before.json = "null" /\ hist[j].after.json = "null"

\* with a redaction function configured, the row of a DELETE and an entry
\* without images have been written
C33_Witness ==
    /\ cfg.Redact # NoRedact
    /\ \E j \in 1..Len(hist) :
          /\ hist[j].op = "DELETE" /\ hist[j].err = "nil"
          /\ hist[j].before.json = "object" /\ hist[j].after.json = "null"
    /\ \E j \in 1..Len(hist) :
          /\ captured[hist[j].eid].img.isNil /\ hist[j].err = "nil"
          /\ hist[j].before.json = "null" /\ hist[j].after.json = "null"

\* C35: an ExecContext call makes one call on the underlying transaction,
\* with the caller's context, text and arguments: QueryContext for a
\* recognised statement with RETURNING, ExecContext for any other
C35_OneExecution ==
    last.call = "ExecContext" =>
        last.issued =
            << [method |-> IF last.s.ok /\ last.s.HasReturning
                           THEN "QueryContext" ELSE "ExecContext",
                ctx |-> last.s.ctx, q |-> last.s.q, args |-> last.s.args] >>

\* a statement with RETURNING whose two rows were captured
C35_Witness ==
    /\ last.call = "ExecContext"
    /\ last.s.ok /\ last.s.HasReturning
    /\ last.err = "nil" /\ last.added = 2
    /\ Len(last.issued) = 1

\* the image of entry eid as it was captured, and as it was sent with the
\* history statement h
CapturedImage(eid) == captured[eid].img
SentObject(h) == IF h.op = "DELETE" THEN h.before.obj ELSE h.after.obj
\* the key id has a redaction function
IdRedacted == ID \in DOMAIN cfg.Redact /\ cfg.Redact[ID] = MaskFunc
\* two images that differ in the value under id at most
SameButId(m1, m2) ==
    /\ ~m1.isNil /\ ~m2.isNil
    /\ DOMAIN m1.kv = DOMAIN m2.kv
    /\ \A k \in DOMAIN m1.kv \ {ID} : m1.kv[k] = m2.kv[k]

\* C39: when id has a redaction function, the id and the image sent with a
\* history INSERT hold the function's output and not the captured value, and
\* two entries whose images differ in the captured id only are sent the same
\* id and the same image
C39_IdFromRedacted ==
    IdRedacted =>
        /\ \A j \in 1..Len(hist) :
              HasKey(CapturedImage(hist[j].eid), ID) =>
                  LET v == CapturedImage(hist[j].eid).kv[ID] IN
                  /\ hist[j].id = RedactFn(ID, v)
                  /\ SentObject(hist[j])[ID] = RedactFn(ID, v)
        /\ \A i, j \in 1..Len(hist) :
              ( /\ hist[i].op = hist[j].op
                /\ SameButId(CapturedImage(hist[i].eid), CapturedImage(hist[j].eid))
                /\ RedactFn(ID, CapturedImage(hist[i].eid).kv[ID])
                      = RedactFn(ID, CapturedImage(hist[j].eid).kv[ID]) ) =>
                  /\ hist[i].id = hist[j].id
                  /\ SentObject(hist[i]) = SentObject(hist[j])

\* two rows of one statement that differ in their id were written
C39_Witness ==
    /\ IdRedacted
    /\ \E i, j \in 1..Len(hist) :
          /\ hist[i].op = hist[j].op
          /\ hist[i].err = "nil" /\ hist[j].err = "nil"
          /\ HasKey(CapturedImage(hist[i].eid), ID) /\ HasKey(CapturedImage(hist[j].eid), ID)
          /\ CapturedImage(hist[i].eid).kv[ID] # CapturedImage(hist[j].eid).kv[ID]
          /\ hist[i].id = Masked /\ hist[j].id = Masked

(***************************************************************************)
(* Properties of ParseDML together with AppendReturningAll.                *)
(***************************************************************************)

\* C37: a statement recognised without RETURNING that AppendReturningAll
\* rewrites is recognised after the rewrite with the same Op and the same
\* Table, and with HasReturning
C37_RewriteKeepsTable ==
    ( /\ app.fn = "Rewrite"
      /\ app.first.ok /\ ~app.first.HasReturning
      /\ app.rewritten.ok ) =>
        /\ app.second.ok
        /\ app.second.Op = app.first.Op
        /\ app.second.Table = app.first.Table
        /\ app.second.HasReturning

\* C38: a statement whose target is a quoted identifier holding a space,
\* with or without an alias, is recognised with the whole quoted identifier
\* as Table, which SplitQualified splits into the parts of the target
C38_QuotedTargetWhole ==
    ( /\ app.fn = "ParseDML"
      /\ app.pro = <<>>
      /\ app.op \in {"INSERT", "UPDATE", "DELETE"}
      /\ app.target[1] = "\""
      /\ \E i \in 1..Len(app.target) : app.target[i] = " " ) =>
        /\ app.out.ok
        /\ app.out.Op = app.op
        /\ app.out.Table = app.target
        /\ SplitQualified(app.out.Table) = SplitQualified(app.target)

(***************************************************************************)
(* Properties of the text of the history statements.                       *)
(***************************************************************************)

\* the least member of a set of places, 0 for the empty set
Least(S) == IF S = {} THEN 0 ELSE CHOOSE j \in S : \A k \in S : j <= k

\* the place of the quote that closes a quoted token read from i on, a
\* doubled quote standing for the quote itself; 0 if there is none
RECURSIVE quotedEnd(_, _, _)
quoteAt(text, j, q) ==
    IF j = 0 THEN 0
    ELSE IF j < Len(text) /\ text[j + 1] = q THEN quotedEnd(text, j + 2, q)
    ELSE j
quotedEnd(text, i, q) ==
    quoteAt(text, Least({j \in i..Len(text) : text[j] = q}), q)

\* the place of the last quote of the qualified identifier that opens at i:
\* quoted parts with dots between them
RECURSIVE qualifiedEnd(_, _)
qualifiedFrom(text, e) ==
    IF e = 0 THEN 0
    ELSE IF e + 2 <= Len(text) /\ text[e + 1] = "." /\ text[e + 2] = "\""
    THEN qualifiedEnd(text, e + 2)
    ELSE e
qualifiedEnd(text, i) == qualifiedFrom(text, quotedEnd(text, i + 1, "\""))

\* the place of the first $$ from i on, which closes a dollar-quoted body
\* whatever stands around it; 0 if there is none
dollarEnd(text, i) ==
    Least({j \in i..(Len(text) - 1) : text[j] = "$" /\ text[j + 1] = "$"})

\* C40: in a statement of flush the history identifier ends where the text
\* put in for it ends, and with SkipIfNotExists so does the regclass
\* literal, and the body of the DO block ends at the $$ of the statement's
\* fixed text
C40_StatementStructure ==
    app.fn = "historyStmt" =>
        /\ qualifiedEnd(app.out.text, app.out.identAt)
              = app.out.identAt + app.out.identLen - 1
        /\ app.skip =>
              /\ quotedEnd(app.out.text, app.out.literalAt + 1, "'")
                    = app.out.literalAt + app.out.literalLen - 1
              /\ dollarEnd(app.out.text, app.out.bodyAt) = app.out.bodyEnd

(***************************************************************************)
(* Properties of ExecContext and Commit on two goroutines.                 *)
(***************************************************************************)

\* C36: when the underlying transaction has been committed, every entry of a
\* statement that succeeded on it has been handed to a history statement by
\* the flush of that Commit, the entries ExecContext has yet to add included
C36_EntriesFlushedOrNoCommit ==
    utx = "committed" =>
        /\ \A i \in 1..Len(run.exec.es) : HistOf(run.exec.es[i].eid) # {}
        /\ \A i \in 1..Len(captured) : HistOf(captured[i].e.eid) # {}

====
